---- MODULE Spec2Model ----
(***************************************************************************)
(* Deskly: the tamper-evident audit ledger (audit_ledger.py), the audit    *)
(* snapshot runs with their delivery channels (audit_snapshot.py,          *)
(* reports.py, scheduler.py) and the request handlers that write to the    *)
(* ledger (users.py, checkouts.py, settings.py).                           *)
(*                                                                         *)
(* Time is counted in minutes since Monday 2024-01-01 00:00 UTC.  The      *)
(* database is the default SQLite store: a read sees the committed rows,   *)
(* a session that has flushed holds the single write lock until it         *)
(* commits, so a handler's flush-to-commit section is one step, while a    *)
(* handler that reads before its first write is split at that point.       *)
(***************************************************************************)
EXTENDS Integers, Sequences, FiniteSets, TLC

\* ------------------------------------------------------------------ bounds

MaxLedger == 2          \* ledger entries written in one run of the model
MaxDay == 0             \* the clock runs over days 0..MaxDay
MaxLogs == 2            \* audit_snapshot_logs rows written in one run
MaxMirrorRows == 1      \* data rows per mirror-log channel
MaxEmails == 2          \* snapshot emails sent in one run
MaxFiles == 2           \* snapshot files kept per storage channel
MaxIncidents == 4       \* damage_incidents rows written in one run
MaxCheckouts == 3       \* checkouts rows, the one of the initial data included
MaxWeeklyDay == 8       \* the clock of a weekly schedule runs over days 0..8

\* --------------------------------------------------------------- text, time

None == "<None>"        \* Python None in a nullable text column
NoneInt == 0 - 1        \* Python None in a nullable integer column

MinutesPerDay == 24 * 60

\* `x or d` on a nullable text value
Or(x, d) == IF x = None \/ x = "" THEN d ELSE x

Digit(d) == <<"0", "1", "2", "3", "4", "5", "6", "7", "8", "9">>[d + 1]

RECURSIVE IntStr(_)
\* str(n) for n >= 0
IntStr(n) == IF n < 10 THEN Digit(n) ELSE IntStr(n \div 10) \o Digit(n % 10)

Pad2(n) == IF n < 10 THEN "0" \o Digit(n) ELSE IntStr(n)

DayOf(t) == t \div MinutesPerDay
HourOf(t) == (t % MinutesPerDay) \div 60
MinuteOf(t) == t % 60
\* date.weekday(): 0 = Monday; day 0 is a Monday
Weekday(t) == DayOf(t) % 7

\* datetime.isoformat() of a datetime with zero seconds
IsoFormat(t) ==
    "2024-01-" \o Pad2(DayOf(t) + 1) \o "T" \o Pad2(HourOf(t)) \o ":"
        \o Pad2(MinuteOf(t)) \o ":00"

RECURSIVE Join(_, _)
\* sep.join(parts)
Join(parts, sep) ==
    IF parts = <<>> THEN ""
    ELSE IF Len(parts) = 1 THEN parts[1]
    ELSE parts[1] \o sep \o Join(Tail(parts), sep)

\* hashlib.sha256(raw).hexdigest(): a digest is treated as collision free and
\* is written as the text it was taken of
Sha256(raw) == "sha256(" \o raw \o ")"

JsonStr(s) == "\"" \o s \o "\""
JsonPair(kv) == JsonStr(kv[1]) \o ":" \o kv[2]
\* json.dumps(obj, sort_keys=True, separators=(',', ':')) of an object whose
\* keys are given in sorted order with their values already dumped
JsonDumps(pairs) ==
    "{" \o Join([i \in 1..Len(pairs) |-> JsonPair(pairs[i])], ",") \o "}"

\* ------------------------------------------------------------------ ledger

\* A reading of the setting that takes every value but 'false' as enabled
IsLedgerEnabledUnlessFalse(s) == s # "false"

\* is_ledger_enabled(): the app_settings row is absent, 'true' or 'false'
IsLedgerEnabled(s) == s = "true"

\* set_ledger_enabled(enabled): the value the row gets
LedgerSettingValue(enabled) == IF enabled THEN "true" ELSE "false"

ComputeEntryHash(prev_hash, created_at, event_type, entity_type, entity_id, actor_id, payload_json) ==
    Sha256(Join(<< Or(prev_hash, ""),
                   IsoFormat(created_at),
                   Or(event_type, ""),
                   Or(entity_type, ""),
                   IF entity_id = NoneInt THEN "" ELSE IntStr(entity_id),
                   IF actor_id = NoneInt THEN "" ELSE IntStr(actor_id),
                   Or(payload_json, "") >>, "|"))

\* A tail query that finds no row
LatestEntryHashOfNone(rows) == ""

\* get_latest_entry() / the tail query of append_ledger_entry
LatestEntryHash(rows) == IF rows = <<>> THEN "" ELSE rows[Len(rows)].entry_hash

\* An entry that starts a chain of its own, whatever tail was read
NewEntryUnlinked(prev_hash, created_at, event_type, entity_type, entity_id, actor_id, payload_json) ==
    [ created_at   |-> created_at,
      event_type   |-> event_type,
      entity_type  |-> entity_type,
      entity_id    |-> entity_id,
      actor_id     |-> actor_id,
      payload_json |-> Or(payload_json, None),
      prev_hash    |-> None,
      entry_hash   |-> ComputeEntryHash("", created_at, event_type,
                                        entity_type, entity_id, actor_id,
                                        payload_json) ]

\* The AuditLedgerEntry that append_ledger_entry builds over the tail it read
NewEntry(prev_hash, created_at, event_type, entity_type, entity_id, actor_id, payload_json) ==
    [ created_at   |-> created_at,
      event_type   |-> event_type,
      entity_type  |-> entity_type,
      entity_id    |-> entity_id,
      actor_id     |-> actor_id,
      payload_json |-> Or(payload_json, None),
      prev_hash    |-> Or(prev_hash, None),
      entry_hash   |-> ComputeEntryHash(prev_hash, created_at, event_type,
                                        entity_type, entity_id, actor_id,
                                        payload_json) ]

\* The UNIQUE index on audit_ledger_entries.entry_hash
EntryHashTaken(rows, h) == \E i \in DOMAIN rows : rows[i].entry_hash = h

\* A write that puts the entry in the place of the last row
InsertEntryOverTail(rows, e) ==
    IF rows = <<>> THEN <<e>> ELSE [rows EXCEPT ![Len(rows)] = e]

\* INSERT of a pending entry at flush: the row gets the next id
InsertEntry(rows, e) == Append(rows, e)

\* ------------------------------------------------------------------- state

VARIABLES
    now,         \* datetime.utcnow()
    setting,     \* app_settings['audit_ledger_enabled']: "absent", "true", "false"
    ledger,      \* committed audit_ledger_entries, in id order
    users,       \* ids of the committed users rows
    assets,      \* asset id -> [status, condition]
    checkouts,   \* committed checkouts rows, in id order
    req,         \* web thread -> the handler it runs, its locals and its reply
    schedule,    \* the audit_snapshot_schedules row
    channels,    \* the audit_*_enabled settings that are 'true'
    snapLogs,    \* committed audit_snapshot_logs rows, in id order
    outbox,      \* snapshot emails handed to the SMTP relay
    localFiles,  \* bundle files written to the local output directory
    driveFiles,  \* bundle files uploaded to the remote drive
    sheetLog,    \* data rows of the remote sheet mirror log
    localLog,    \* data rows of the local CSV mirror log
    run,         \* snapshot thread -> the run it performs, its locals and its reply
    incidents,   \* committed damage_incidents rows, in id order
    repeat_breakage_flag  \* <<"asset", id>> or <<"user", id>> -> the row's flag

ledgerVars == <<setting, ledger>>
domainVars == <<users, assets, checkouts, req>>
snapshotVars ==
    <<schedule, channels, snapLogs, outbox, localFiles, driveFiles, sheetLog,
      localLog, run>>
breakageVars == <<incidents, repeat_breakage_flag>>
vars == <<now, ledgerVars, domainVars, snapshotVars, breakageVars>>

\* The assets and users rows that carry a repeat_breakage_flag
Entities == ({"asset"} \X {1, 2}) \cup ({"user"} \X {1, 2, 3})

\* The instants at which the clock is read: before, at and after the
\* scheduled time (01:00) of each day
MinuteMarks == {55, 60, 65}
ClockPoints == {d * MinutesPerDay + m : d \in 0..MaxDay, m \in MinuteMarks}

\* Time passes.  The instants lie minutes apart and a snapshot run takes
\* less, so the clock is read again only between runs.
Tick ==
    /\ \A t \in DOMAIN run : run[t].pc = "idle"
    /\ \E t \in ClockPoints : t > now /\ now' = t
    /\ UNCHANGED <<breakageVars, ledgerVars, domainVars, snapshotVars>>

\* ------------------------------------------------- request handlers (web)

WebThreads == {"w1", "w2"}

\* current_user.id of the signed-in administrator
CurrentUser == 1

NoEntry == [entry_hash |-> ""]

Idle(result) ==
    [pc |-> "idle", handler |-> "", arg |-> 0, co |-> 0, cond |-> "",
     entry |-> NoEntry, result |-> result, loaner |-> 0, to |-> "",
     due |-> NoneInt]

\* str(exc) of what the ledger write can raise
TailReadError == "OperationalError: audit_ledger_entries"
InsertError == "IntegrityError: audit_ledger_entries.entry_hash"
StaleError == "StaleDataError: users"
LedgerErrors == {TailReadError, InsertError}

\* Asset.current_checkout: the first checkout of the asset with no
\* checked_in_date; 0 when there is none
ActiveCheckouts(rows, a) ==
    {i \in DOMAIN rows : rows[i].asset_id = a /\ rows[i].checked_in_date = NoneInt}
CurrentCheckout(rows, a) ==
    IF ActiveCheckouts(rows, a) = {} THEN 0
    ELSE CHOOSE i \in ActiveCheckouts(rows, a) :
             \A j \in ActiveCheckouts(rows, a) : i <= j

UserName(u) == "user" \o IntStr(u)
AssetTag(a) == "TAG-" \o IntStr(a)

DeletePayload(u) ==
    JsonDumps(<< <<"email", JsonStr(UserName(u) \o "@school.edu")>>,
                 <<"name", JsonStr(UserName(u))>>,
                 <<"role", JsonStr("staff")>> >>)

CheckinPayload(a, c, cond) ==
    JsonDumps(<< <<"asset_id", IntStr(a)>>,
                 <<"asset_tag", JsonStr(AssetTag(a))>>,
                 <<"checked_out_to", JsonStr(c.checked_out_to)>>,
                 <<"condition", JsonStr(cond)>>,
                 <<"notes", JsonStr("")>> >>)

\* users.delete up to and including its append_ledger_entry call: the user
\* row is read, then the ledger setting and the ledger tail; nothing has
\* been written yet, so no lock is held when the handler goes on
DeleteBegin(p, u) ==
    /\ req[p].pc = "idle"
    /\ Len(ledger) < MaxLedger
    /\ u \in users
    /\ u # CurrentUser
    /\ ~\E i \in DOMAIN checkouts : checkouts[i].checked_out_by = u
    /\ \E fault \in {"none", "tail_read"} :
         IF IsLedgerEnabled(setting) /\ fault = "tail_read"
         THEN req' = [req EXCEPT ![p] = Idle("Error deleting user: " \o TailReadError)]
         ELSE req' = [req EXCEPT ![p] =
                  [pc |-> "commit", handler |-> "delete", arg |-> u, co |-> 0,
                   cond |-> "",
                   entry |-> IF IsLedgerEnabled(setting)
                             THEN NewEntry(LatestEntryHash(ledger), now,
                                           "user_deleted", "user", u,
                                           CurrentUser, DeletePayload(u))
                             ELSE NoEntry,
                   result |-> "", loaner |-> 0, to |-> "", due |-> NoneInt]]
    /\ UNCHANGED <<breakageVars, now, ledgerVars, users, assets, checkouts, snapshotVars>>

\* users.delete from db.session.delete(user) to the end: the commit flushes
\* the DELETE and the pending ledger INSERT together; any exception rolls
\* both back
DeleteCommit(p) ==
    /\ req[p].pc = "commit"
    /\ req[p].handler = "delete"
    /\ \E fault \in {"none", "insert"} :
         LET e == req[p].entry
             raised ==
                 IF req[p].arg \notin users THEN StaleError
                 ELSE IF e # NoEntry
                         /\ (fault = "insert" \/ EntryHashTaken(ledger, e.entry_hash))
                 THEN InsertError
                 ELSE ""
         IN  IF raised # ""
             THEN /\ req' = [req EXCEPT ![p] = Idle("Error deleting user: " \o raised)]
                  /\ UNCHANGED <<users, ledger>>
             ELSE /\ users' = users \ {req[p].arg}
                  /\ ledger' = IF e = NoEntry THEN ledger ELSE InsertEntry(ledger, e)
                  /\ req' = [req EXCEPT ![p] =
                         Idle("User " \o UserName(req[p].arg)
                                  \o " deleted successfully.")]
    /\ UNCHANGED <<breakageVars, now, setting, assets, checkouts, snapshotVars>>

\* checkouts.checkin (POST) down to the staged mutations: the asset and its
\* active checkout are read; without one the request is turned away.  The
\* conditions drawn here are those that open no repair ticket.
CheckinBegin(p, a, cond) ==
    /\ req[p].pc = "idle"
    /\ Len(ledger) < MaxLedger
    /\ a \in DOMAIN assets
    /\ LET c == CurrentCheckout(checkouts, a)
       IN  IF c = 0
           THEN req' = [req EXCEPT ![p] =
                    Idle("Asset " \o AssetTag(a) \o " is not currently checked out.")]
           ELSE req' = [req EXCEPT ![p] =
                    [pc |-> "commit", handler |-> "checkin", arg |-> a, co |-> c,
                     cond |-> cond, entry |-> NoEntry, result |-> "",
                     loaner |-> 0, to |-> "", due |-> NoneInt]]
    /\ UNCHANGED <<breakageVars, now, ledgerVars, users, assets, checkouts, snapshotVars>>

\* checkouts.checkin from the first flush (taken by the AppSetting query of
\* is_ledger_enabled) to the commit, under the write lock: the ledger
\* setting and tail are read, the entry is built, and the commit writes the
\* checkout, the asset and the entry together; any exception rolls all of
\* it back and is flashed
CheckinCommit(p) ==
    /\ req[p].pc = "commit"
    /\ req[p].handler = "checkin"
    /\ \E fault \in {"none", "tail_read", "insert"} :
         LET a == req[p].arg
             c == req[p].co
             enabled == IsLedgerEnabled(setting)
             e == NewEntry(LatestEntryHash(ledger), now, "asset_checked_in",
                           "checkout", c, CurrentUser,
                           CheckinPayload(a, checkouts[c], req[p].cond))
             raised ==
                 IF ~enabled THEN ""
                 ELSE IF fault = "tail_read" THEN TailReadError
                 ELSE IF fault = "insert" \/ EntryHashTaken(ledger, e.entry_hash)
                 THEN InsertError
                 ELSE ""
         IN  IF raised # ""
             THEN /\ req' = [req EXCEPT ![p] =
                          Idle("Error checking in asset: " \o raised)]
                  /\ UNCHANGED <<assets, checkouts, ledger>>
             ELSE /\ checkouts' = [checkouts EXCEPT
                          ![c].checked_in_date = now,
                          ![c].checkin_condition = req[p].cond]
                  /\ assets' = [assets EXCEPT
                          ![a] = [status |-> "available", condition |-> req[p].cond]]
                  /\ ledger' = IF enabled THEN InsertEntry(ledger, e) ELSE ledger
                  /\ req' = [req EXCEPT ![p] =
                          Idle("Asset " \o AssetTag(a) \o " checked in successfully!")]
    /\ UNCHANGED <<breakageVars, now, setting, users, snapshotVars>>

\* settings.update_audit_ledger: set_ledger_enabled(enabled) and commit
UpdateAuditLedger(p, enabled) ==
    /\ req[p].pc = "idle"
    /\ setting' = LedgerSettingValue(enabled)
    /\ UNCHANGED <<breakageVars, now, ledger, domainVars, snapshotVars>>

\* ------------------------------------------------------- snapshot channels

\* strftime('%Y%m%d_%H%M%S') file name of a run started at t
Filename(t) ==
    "audit_snapshot_202401" \o Pad2(DayOf(t) + 1) \o "_" \o Pad2(HourOf(t))
        \o Pad2(MinuteOf(t)) \o "00.zip"

\* strftime('%Y-%m-%d %H:%M:%S')
Strftime(t) ==
    "2024-01-" \o Pad2(DayOf(t) + 1) \o " " \o Pad2(HourOf(t)) \o ":"
        \o Pad2(MinuteOf(t)) \o ":00"

\* build_audit_snapshot_bundle() at t: the archive bytes and the digest of
\* its manifest
ZipBytes(t) == "zip[" \o Strftime(t) \o "]"
ManifestSha(t) == Sha256("manifest[" \o Strftime(t) \o "]")

BuildError == "OperationalError: snapshot extract query failed"
SmtpError == "SMTP is not configured. Set SMTP_HOST in .env."
MkdirError == "PermissionError: audit_snapshots"
LocalWriteError == "Local output failed: disk full"
DriveError == "Drive upload failed: connection refused"
SheetError == "Google Sheet log failed: quota exceeded"
LocalLogError == "Local log failed: read-only file system"

\* The secondary channels, in the order handle_snapshot_artifacts runs them
SecondaryChannels == <<"local_output", "drive", "sheet_log", "local_log">>
ChannelError(ch) ==
    CASE ch = "local_output" -> LocalWriteError
      [] ch = "drive" -> DriveError
      [] ch = "sheet_log" -> SheetError
      [] ch = "local_log" -> LocalLogError

\* What the environment does to each channel of one run: "ok" or "fail" per
\* channel, and "mkdir_fail" when the local output directory cannot be made
AllOk == [ch \in {"local_output", "drive", "sheet_log", "local_log"} |-> "ok"]
Outcomes ==
    { AllOk,
      [AllOk EXCEPT !.local_output = "mkdir_fail"],
      [AllOk EXCEPT !.local_output = "fail", !.drive = "fail"],
      [AllOk EXCEPT !.sheet_log = "fail"] }

\* handle_snapshot_artifacts raises: os.makedirs(output_dir) stands outside
\* the try block of the local output channel
ArtifactsRaise(enabled, o) ==
    "local_output" \in enabled /\ o.local_output = "mkdir_fail"

\* The channels whose block is entered before the function returns or raises
ArtifactsAttempted(enabled, o) ==
    IF ArtifactsRaise(enabled, o) THEN {"local_output"} ELSE enabled

\* results['errors'], in channel order
RECURSIVE ErrorsFrom(_, _, _)
ErrorsFrom(chs, enabled, o) ==
    IF chs = <<>> THEN <<>>
    ELSE (IF Head(chs) \in enabled /\ o[Head(chs)] = "fail"
          THEN <<ChannelError(Head(chs))>> ELSE <<>>)
         \o ErrorsFrom(Tail(chs), enabled, o)
ArtifactErrors(enabled, o) == ErrorsFrom(SecondaryChannels, enabled, o)

Delivered(enabled, o, ch) == ch \in enabled /\ o[ch] = "ok"

\* _compute_row_hash(prev_hash, fields)
ComputeRowHash(prev_hash, fields) ==
    Sha256(Join(<<Or(prev_hash, "")>> \o [i \in DOMAIN fields |-> Or(fields[i], "")],
                "|"))

\* row_values of handle_snapshot_artifacts for the run started at t, written
\* at wall-clock time w
RowValues(t, w, enabled, o) ==
    LET drive == Delivered(enabled, o, "drive")
        local == Delivered(enabled, o, "local_output")
        stem == "audit_snapshot_202401" \o Pad2(DayOf(t) + 1) \o "_"
                    \o Pad2(HourOf(t)) \o Pad2(MinuteOf(t)) \o "00"
    IN  << Strftime(w), Filename(t), Sha256(ZipBytes(t)), ManifestSha(t),
           IF drive THEN "drive:" \o Filename(t) ELSE "",
           IF drive THEN "drive:" \o stem \o "_manifest.csv" ELSE "",
           IF drive THEN "drive:" \o stem \o "_manifest.pdf" ELSE "",
           IF local THEN "audit_snapshots/" \o Filename(t) ELSE "",
           IF local THEN "audit_snapshots/" \o stem \o "_manifest.csv" ELSE "",
           IF local THEN "audit_snapshots/" \o stem \o "_manifest.pdf" ELSE "" >>

\* _write_audit_log_local / _write_audit_log_sheet.  A channel is the list
\* of its data rows (the header row is left out).  The function first reads
\* the channel: prev_hash is the last cell of the last data row, '' when
\* there is none ...
MirrorTail(rows) == IF rows = <<>> THEN "" ELSE rows[Len(rows)].row_hash
\* A writer that starts every row with an empty prev_hash
MirrorAppendUnchained(rows, prev_hash, values) ==
    Append(rows, [fields |-> values, prev_hash |-> "",
                  row_hash |-> ComputeRowHash("", values)])
\* ... and then appends row_values + [prev_hash, row_hash] to what the
\* channel holds by then
MirrorAppend(rows, prev_hash, values) ==
    Append(rows, [fields |-> values, prev_hash |-> prev_hash,
                  row_hash |-> ComputeRowHash(prev_hash, values)])
\* The log channels a call of handle_snapshot_artifacts writes a row to
MirrorChannels(enabled, o) ==
    {ch \in {"sheet_log", "local_log"} : Delivered(enabled, o, ch)}

\* ----------------------------------------------------------- snapshot runs

SnapThreads == {"manual", "sched"}

\* No bundle built yet
NoBundle == [zip |-> <<>>, manifest_sha |-> "", manifest |-> <<>>]

\* A thread between runs keeps the locals and the reply of its last run
NoRun ==
    [pc |-> "idle", method |-> "", email_to |-> "", at |-> 0, built |-> FALSE,
     attempted |-> {}, errors |-> <<>>, exc |-> "", result |-> "",
     row_values |-> <<>>, mirror |-> {}, prev_hash |-> "",
     bundle |-> NoBundle]

\* The thread's record once its run has ended with `result`
Ended(r, result) ==
    [NoRun EXCEPT !.method = r.method, !.email_to = r.email_to,
                  !.built = r.built, !.attempted = r.attempted,
                  !.result = result]

\* The message text is kept as the list of the pieces it is put together of
StorageWarnings(errors) ==
    IF errors = <<>> THEN <<>>
    ELSE <<" Storage warnings: ">>
         \o [i \in 1..(2 * Len(errors) - 1) |->
                 IF i % 2 = 1 THEN errors[(i + 1) \div 2] ELSE "; "]

\* The AuditSnapshotLog row of create_snapshot_log, inserted at wall-clock w
SnapshotLogRow(w, trigger_type, delivery_method, filename, manifest_sha256, status, message, recipient_email, created_by) ==
    [ generated_at    |-> w,
      trigger_type    |-> trigger_type,
      delivery_method |-> delivery_method,
      recipient_email |-> Or(recipient_email, None),
      zip_filename    |-> filename,
      manifest_sha256 |-> manifest_sha256,
      status          |-> status,
      message         |-> message,
      created_by      |-> created_by ]

SnapshotPayload(row) ==
    JsonDumps(<< <<"delivery_method", JsonStr(row.delivery_method)>>,
                 <<"filename", JsonStr(row.zip_filename)>>,
                 <<"manifest_sha256", JsonStr(row.manifest_sha256)>>,
                 <<"status", JsonStr(row.status)>>,
                 <<"trigger_type", JsonStr(row.trigger_type)>> >>)

\* A create_snapshot_log that writes no ledger entry
LedgerAfterLogSkipped(rows, s, w, row, id) == rows

\* The ledger after create_snapshot_log(row): the row is flushed to get its
\* id, then append_ledger_entry runs under the same transaction
LedgerAfterLog(rows, s, w, row, id) ==
    IF IsLedgerEnabled(s)
    THEN InsertEntry(rows, NewEntry(LatestEntryHash(rows), w, "audit_snapshot",
                                    "audit_snapshot_log", id, row.created_by,
                                    SnapshotPayload(row)))
    ELSE rows

\* create_snapshot_log(...): one row and, with the ledger enabled, its entry
CreateSnapshotLog(row) ==
    /\ snapLogs' = Append(snapLogs, row)
    /\ ledger' = LedgerAfterLog(ledger, setting, now, row, Len(snapLogs) + 1)

\* The effect of handle_snapshot_artifacts on the storage channels
ApplyArtifacts(t, o) ==
    /\ localFiles' = IF Delivered(channels, o, "local_output")
                     THEN localFiles \cup {Filename(t)} ELSE localFiles
    /\ driveFiles' = IF Delivered(channels, o, "drive")
                     THEN driveFiles \cup {Filename(t)} ELSE driveFiles

\* Where the caller of handle_snapshot_artifacts goes on when it returns
AfterArtifacts(t) == IF t = "sched" THEN "finish" ELSE "deliver"

\* The run of thread t once the storage channels are done and row_values is
\* built: it has read the last row of the first log channel it writes to.
\* No lock is held between this read and the append that follows it.
ReadMirror(r, t, o) ==
    LET mirror == MirrorChannels(channels, o)
    IN  [r EXCEPT
           !.row_values = IF mirror = {} THEN <<>>
                          ELSE RowValues(r.at, now, channels, o),
           !.mirror = mirror,
           !.prev_hash = IF "sheet_log" \in mirror THEN MirrorTail(sheetLog)
                         ELSE IF "local_log" \in mirror THEN MirrorTail(localLog)
                         ELSE "",
           !.pc = IF "sheet_log" \in mirror THEN "sheet_append"
                  ELSE IF "local_log" \in mirror THEN "local_append"
                  ELSE AfterArtifacts(t)]

\* worksheet.append_row(row_with_hash) of _write_audit_log_sheet; when the
\* local log is written too, _write_audit_log_local then reads its file
WriteAuditLogSheet(t) ==
    /\ run[t].pc = "sheet_append"
    /\ sheetLog' = MirrorAppend(sheetLog, run[t].prev_hash, run[t].row_values)
    /\ run' = [run EXCEPT ![t] =
           IF "local_log" \in @.mirror
           THEN [@ EXCEPT !.pc = "local_append",
                          !.prev_hash = MirrorTail(localLog)]
           ELSE [@ EXCEPT !.pc = AfterArtifacts(t), !.row_values = <<>>,
                          !.mirror = {}, !.prev_hash = ""]]
    /\ UNCHANGED <<breakageVars, now, ledgerVars, domainVars, schedule, channels, snapLogs,
                   outbox, localFiles, driveFiles, localLog>>

\* writer.writerow(row_with_hash) of _write_audit_log_local; the function
\* and handle_snapshot_artifacts return
WriteAuditLogLocal(t) ==
    /\ run[t].pc = "local_append"
    /\ localLog' = MirrorAppend(localLog, run[t].prev_hash, run[t].row_values)
    /\ run' = [run EXCEPT ![t] =
           [@ EXCEPT !.pc = AfterArtifacts(t), !.row_values = <<>>,
                     !.mirror = {}, !.prev_hash = ""]]
    /\ UNCHANGED <<breakageVars, now, ledgerVars, domainVars, schedule, channels, snapLogs,
                   outbox, localFiles, driveFiles, sheetLog>>

\* The model stops starting runs once its stores are full
RoomForRun ==
    /\ Len(snapLogs) < MaxLogs
    /\ Len(ledger) < MaxLedger
    /\ Len(outbox) < MaxEmails
    /\ Len(sheetLog) < MaxMirrorRows
    /\ Len(localLog) < MaxMirrorRows
    /\ Cardinality(localFiles) < MaxFiles
    /\ Cardinality(driveFiles) < MaxFiles

\* The schedule window that contains t: scheduled_at of
\* run_scheduled_snapshot_if_due, for 'daily' and for 'weekly'
\* A window that opens at midnight of the day, whatever the configured time
ScheduledAtDayStart(sch, t) == DayOf(t) * MinutesPerDay

\* A due check that goes back to the window of the day before while today's
\* has not opened
ScheduledAtCatchUp(sch, t) ==
    LET today == DayOf(t) * MinutesPerDay + sch.hour_utc * 60 + sch.minute_utc
    IN  IF t < today THEN today - MinutesPerDay ELSE today

\* The days from today forward to the configured weekday
DaysAhead(sch, t) == (sch.weekday_utc - Weekday(t)) % 7
\* days_behind of a weekly schedule
DaysBehind(sch, t) == (Weekday(t) - sch.weekday_utc) % 7
ScheduledAt(sch, t) ==
    IF sch.frequency = "daily"
    THEN DayOf(t) * MinutesPerDay + sch.hour_utc * 60 + sch.minute_utc
    ELSE (DayOf(t) - DaysBehind(sch, t)) * MinutesPerDay
             + sch.hour_utc * 60 + sch.minute_utc

\* A due check that takes a run at the very start of the window as a run of
\* the window before
DueCheckStrict(sch, t) ==
    IF ~sch.enabled \/ sch.recipient_email = ""
    THEN "No enabled audit snapshot schedule."
    ELSE IF sch.frequency \notin {"daily", "weekly"}
    THEN "Invalid schedule frequency."
    ELSE IF t < ScheduledAt(sch, t)
    THEN "Scheduled time not reached yet."
    ELSE IF sch.last_run_at # NoneInt /\ sch.last_run_at > ScheduledAt(sch, t)
    THEN "Snapshot already generated for current schedule window."
    ELSE ""

\* The reply of the due check, "" when the run is to start
DueCheck(sch, t) ==
    IF ~sch.enabled \/ sch.recipient_email = ""
    THEN "No enabled audit snapshot schedule."
    ELSE IF sch.frequency \notin {"daily", "weekly"}
    THEN "Invalid schedule frequency."
    ELSE IF t < ScheduledAt(sch, t)
    THEN "Scheduled time not reached yet."
    ELSE IF sch.last_run_at # NoneInt /\ sch.last_run_at >= ScheduledAt(sch, t)
    THEN "Snapshot already generated for current schedule window."
    ELSE ""

\* scheduler.audit_snapshot_schedule_job -> run_scheduled_snapshot_if_due,
\* down to the due check: a poll that is not due replies and ends; a poll
\* that is due fixes `now` and the file name and starts the run
SchedPoll ==
    /\ run["sched"].pc = "idle"
    /\ DueCheck(schedule, now) = "" => RoomForRun
    /\ LET reply == DueCheck(schedule, now)
       IN  run' = [run EXCEPT !["sched"] =
               IF reply # ""
               THEN [NoRun EXCEPT !.result = reply]
               ELSE [NoRun EXCEPT !.pc = "build", !.method = "email",
                                  !.email_to = schedule.recipient_email,
                                  !.at = now]]
    /\ UNCHANGED <<breakageVars, now, ledgerVars, domainVars, schedule, channels, snapLogs,
                   outbox, localFiles, driveFiles, sheetLog, localLog>>

\* build_audit_snapshot_bundle() inside the try block of the scheduled run
SchedBuild ==
    /\ run["sched"].pc = "build"
    /\ \E ok \in BOOLEAN :
         run' = [run EXCEPT !["sched"] =
             IF ok THEN [@ EXCEPT !.pc = "email", !.built = TRUE]
             ELSE [@ EXCEPT !.pc = "except", !.exc = BuildError]]
    /\ UNCHANGED <<breakageVars, now, ledgerVars, domainVars, schedule, channels, snapLogs,
                   outbox, localFiles, driveFiles, sheetLog, localLog>>

\* send_snapshot_email(schedule.recipient_email, ...) of the scheduled run
SchedEmail ==
    /\ run["sched"].pc = "email"
    /\ \E ok \in BOOLEAN :
         IF ok
         THEN /\ outbox' = Append(outbox, [to |-> run["sched"].email_to,
                                           filename |-> Filename(run["sched"].at)])
              /\ run' = [run EXCEPT !["sched"] =
                     [@ EXCEPT !.pc = "artifacts",
                               !.attempted = @ \cup {"email"}]]
         ELSE /\ outbox' = outbox
              /\ run' = [run EXCEPT !["sched"] =
                     [@ EXCEPT !.pc = "except", !.exc = SmtpError,
                               !.attempted = @ \cup {"email"}]]
    /\ UNCHANGED <<breakageVars, now, ledgerVars, domainVars, schedule, channels, snapLogs,
                   localFiles, driveFiles, sheetLog, localLog>>

\* handle_snapshot_artifacts(...) of the scheduled run
SchedArtifacts ==
    /\ run["sched"].pc = "artifacts"
    /\ \E o \in Outcomes :
         IF ArtifactsRaise(channels, o)
         THEN /\ run' = [run EXCEPT !["sched"] =
                     [@ EXCEPT !.pc = "except", !.exc = MkdirError,
                               !.attempted = @ \cup ArtifactsAttempted(channels, o)]]
              /\ UNCHANGED <<localFiles, driveFiles>>
         ELSE /\ run' = [run EXCEPT !["sched"] =
                     ReadMirror([@ EXCEPT
                               !.attempted = @ \cup ArtifactsAttempted(channels, o),
                               !.errors = ArtifactErrors(channels, o)],
                         "sched", o)]
              /\ ApplyArtifacts(run["sched"].at, o)
    /\ UNCHANGED <<breakageVars, now, ledgerVars, domainVars, schedule, channels, snapLogs,
                   outbox, sheetLog, localLog>>

\* The end of the try block: last_run_at is set and committed, then the
\* success row is logged and the job replies (True, 'Scheduled snapshot
\* sent.').  What create_snapshot_log raises (the ledger write of an enabled
\* ledger failing, as in the request handlers) is caught by the except
\* block after last_run_at has been committed.
SchedFinish ==
    /\ run["sched"].pc = "finish"
    /\ schedule' = [schedule EXCEPT !.last_run_at = run["sched"].at]
    /\ \E fault \in {"none", "insert"} :
         IF IsLedgerEnabled(setting) /\ fault = "insert"
         THEN /\ run' = [run EXCEPT !["sched"] =
                     [@ EXCEPT !.pc = "except", !.exc = InsertError]]
              /\ UNCHANGED <<snapLogs, ledger>>
         ELSE /\ CreateSnapshotLog(
                     SnapshotLogRow(now, "scheduled", "email",
                                    Filename(run["sched"].at),
                                    ManifestSha(run["sched"].at), "success",
                                    <<"Scheduled snapshot emailed.">>
                                        \o StorageWarnings(run["sched"].errors),
                                    run["sched"].email_to, NoneInt))
              /\ run' = [run EXCEPT !["sched"] =
                     Ended(@, "Scheduled snapshot sent.")]
    /\ UNCHANGED <<breakageVars, now, setting, domainVars, channels, outbox, localFiles,
                   driveFiles, sheetLog, localLog>>

\* The except block: rollback, then the best-effort failed row
SchedExcept ==
    /\ run["sched"].pc = "except"
    /\ CreateSnapshotLog(
           SnapshotLogRow(now, "scheduled", "email", Filename(run["sched"].at),
                          "0000000000000000000000000000000000000000000000000000000000000000",
                          "failed", <<run["sched"].exc>>,
                          run["sched"].email_to, NoneInt))
    /\ run' = [run EXCEPT !["sched"] = Ended(@, run["sched"].exc)]
    /\ UNCHANGED <<breakageVars, now, setting, domainVars, schedule, channels, outbox,
                   localFiles, driveFiles, sheetLog, localLog>>

\* reports.generate_audit_snapshot: the form is read and the file name fixed
ManualStart(method, email_to) ==
    /\ run["manual"].pc = "idle"
    /\ RoomForRun
    /\ run' = [run EXCEPT !["manual"] =
           [NoRun EXCEPT !.pc = "build", !.method = method,
                         !.email_to = email_to, !.at = now]]
    /\ UNCHANGED <<breakageVars, now, ledgerVars, domainVars, schedule, channels, snapLogs,
                   outbox, localFiles, driveFiles, sheetLog, localLog>>

\* build_audit_snapshot_bundle() of the manual request: a failure is
\* flashed and the request ends
ManualBuild ==
    /\ run["manual"].pc = "build"
    /\ \E ok \in BOOLEAN :
         run' = [run EXCEPT !["manual"] =
             IF ok THEN [@ EXCEPT !.pc = "artifacts", !.built = TRUE]
             ELSE Ended(@, "Failed to build audit snapshot: " \o BuildError)]
    /\ UNCHANGED <<breakageVars, now, ledgerVars, domainVars, schedule, channels, snapLogs,
                   outbox, localFiles, driveFiles, sheetLog, localLog>>

\* handle_snapshot_artifacts(...) of the manual request, called outside any
\* try block: what it raises ends the request with a server error
ManualArtifacts ==
    /\ run["manual"].pc = "artifacts"
    /\ \E o \in Outcomes :
         IF ArtifactsRaise(channels, o)
         THEN /\ run' = [run EXCEPT !["manual"] =
                     Ended([@ EXCEPT !.attempted =
                                @ \cup ArtifactsAttempted(channels, o)],
                           "500 Internal Server Error: " \o MkdirError)]
              /\ UNCHANGED <<localFiles, driveFiles>>
         ELSE /\ run' = [run EXCEPT !["manual"] =
                     ReadMirror([@ EXCEPT
                               !.attempted = @ \cup ArtifactsAttempted(channels, o),
                               !.errors = ArtifactErrors(channels, o)],
                         "manual", o)]
              /\ ApplyArtifacts(run["manual"].at, o)
    /\ UNCHANGED <<breakageVars, now, ledgerVars, domainVars, schedule, channels, snapLogs,
                   outbox, sheetLog, localLog>>

\* The delivery branch of the manual request: download, email, or neither
ManualDeliver ==
    /\ run["manual"].pc = "deliver"
    /\ LET r == run["manual"]
           row(method, status, message) ==
               SnapshotLogRow(now, "manual", method, Filename(r.at),
                              ManifestSha(r.at), status, message,
                              IF method = "email" THEN r.email_to ELSE "",
                              CurrentUser)
       IN  CASE r.method = "download" ->
                  /\ CreateSnapshotLog(row("download", "success",
                         <<"Manual snapshot downloaded.">>
                             \o StorageWarnings(r.errors)))
                  /\ run' = [run EXCEPT !["manual"] = Ended(@, "download")]
                  /\ outbox' = outbox
             [] r.method = "email" /\ r.email_to = "" ->
                  /\ run' = [run EXCEPT !["manual"] =
                         Ended(@, "Email address is required for snapshot email delivery.")]
                  /\ UNCHANGED <<snapLogs, ledger, outbox>>
             [] r.method = "email" /\ r.email_to # "" ->
                  \E ok \in BOOLEAN :
                    IF ok
                    THEN /\ outbox' = Append(outbox, [to |-> r.email_to,
                                                      filename |-> Filename(r.at)])
                         /\ CreateSnapshotLog(row("email", "success",
                                <<"Manual snapshot emailed.">>
                                    \o StorageWarnings(r.errors)))
                         /\ run' = [run EXCEPT !["manual"] =
                                Ended([@ EXCEPT !.attempted = @ \cup {"email"}],
                                      "Audit snapshot emailed to "
                                          \o r.email_to \o ".")]
                    ELSE /\ outbox' = outbox
                         /\ CreateSnapshotLog(row("email", "failed", <<SmtpError>>))
                         /\ run' = [run EXCEPT !["manual"] =
                                Ended([@ EXCEPT !.attempted = @ \cup {"email"}],
                                      "Email delivery failed: " \o SmtpError)]
             [] OTHER ->
                  /\ run' = [run EXCEPT !["manual"] =
                         Ended(@, "Invalid snapshot delivery method.")]
                  /\ UNCHANGED <<snapLogs, ledger, outbox>>
    /\ UNCHANGED <<breakageVars, now, setting, domainVars, schedule, channels, localFiles,
                   driveFiles, sheetLog, localLog>>

\* reports.audit and settings.audit_ledger_events: the newest rows are
\* listed, nothing is written
ViewAuditLog == UNCHANGED vars

\* ---------------------------------------------------------- specifications

\* get_or_create_snapshot_schedule(): the row as first created
DefaultSchedule ==
    [enabled |-> FALSE, recipient_email |-> "", frequency |-> "daily",
     hour_utc |-> 1, minute_utc |-> 0, weekday_utc |-> 0, last_run_at |-> NoneInt]

\* Schedules an administrator has saved: off, and daily at 01:00
Schedules ==
    { DefaultSchedule,
      [DefaultSchedule EXCEPT !.enabled = TRUE,
                              !.recipient_email = "auditor@school.edu"] }

\* The forms posted to the manual snapshot request: the delivery method and
\* the recipient address
ManualForms ==
    { <<"download", "">>, <<"email", "">>, <<"email", "auditor@school.edu">>,
      <<"ftp", "">> }

\* Channel settings an administrator has saved
ChannelConfigs ==
    { {}, {"local_output", "drive", "sheet_log", "local_log"} }

\* A database in which asset 1 was checked out to user 2 before the ledger
\* was ever switched on
InitData ==
    /\ now = 55
    /\ setting = "absent"
    /\ ledger = <<>>
    /\ users = {1, 2, 3}
    /\ assets = [a \in {1, 2} |->
                   IF a = 1 THEN [status |-> "checked_out", condition |-> "good"]
                   ELSE [status |-> "available", condition |-> "good"]]
    /\ checkouts = << [asset_id |-> 1, checked_out_to |-> UserName(2),
                       checked_out_by |-> CurrentUser, checkout_date |-> 0,
                       expected_return_date |-> NoneInt,
                       checked_in_date |-> NoneInt, checkin_condition |-> None] >>
    /\ req = [p \in WebThreads |-> Idle("")]
    /\ snapLogs = <<>>
    /\ outbox = <<>>
    /\ localFiles = {}
    /\ driveFiles = {}
    /\ sheetLog = <<>>
    /\ localLog = <<>>
    /\ run = [t \in SnapThreads |-> NoRun]
    /\ incidents = <<>>
    /\ repeat_breakage_flag = [e \in Entities |-> FALSE]

Init ==
    /\ InitData
    /\ schedule = DefaultSchedule
    /\ channels = {}

\* One step of the request handler that web thread p runs
WebStep(p) ==
    \/ \E u \in {1, 2, 3} : DeleteBegin(p, u)
    \/ DeleteCommit(p)
    \/ \E a \in {1, 2} : CheckinBegin(p, a, "good")
    \/ CheckinCommit(p)
    \/ \E enabled \in BOOLEAN : UpdateAuditLedger(p, enabled)

Next ==
    \/ \E p \in WebThreads : WebStep(p)
    \/ Tick

\* The request handlers on concurrent web threads
Spec == Init /\ [][Next]_vars

\* The same handlers when requests arrive one after another
NextSeq ==
    \/ \E p \in WebThreads :
         /\ \A q \in WebThreads \ {p} : req[q].pc = "idle"
         /\ WebStep(p)
    \/ Tick

SpecSeq == Init /\ [][NextSeq]_vars

InitSnapshot ==
    /\ InitData
    /\ schedule \in Schedules
    /\ channels \in ChannelConfigs

NextSnapshot ==
    \/ SchedPoll
    \/ SchedBuild
    \/ SchedEmail
    \/ SchedArtifacts
    \/ SchedFinish
    \/ SchedExcept
    \/ \E form \in ManualForms : ManualStart(form[1], form[2])
    \/ ManualBuild
    \/ ManualArtifacts
    \/ ManualDeliver
    \/ \E t \in SnapThreads : WriteAuditLogSheet(t)
    \/ \E t \in SnapThreads : WriteAuditLogLocal(t)
    \/ \E enabled \in BOOLEAN : UpdateAuditLedger("w1", enabled)
    \/ ViewAuditLog
    \/ Tick

\* The snapshot runs: the scheduler's thread and a manual request
SpecSnapshot == InitSnapshot /\ [][NextSnapshot]_vars

\* ------------------------------------------------ the schedule and its form

MaxScheduleDay == 1     \* the schedule is polled over days 0..MaxScheduleDay

\* The instants at which the schedule is polled or edited
SchedulePoints ==
    {d * MinutesPerDay + m : d \in 0..MaxScheduleDay, m \in MinuteMarks}

\* Time passes, as in Tick, over the days of the schedule
TickSchedule ==
    /\ \A t \in DOMAIN run : run[t].pc = "idle"
    /\ \E t \in SchedulePoints : t > now /\ now' = t
    /\ UNCHANGED <<breakageVars, ledgerVars, domainVars, snapshotVars>>

\* The forms posted to update_audit_snapshot_schedule; a field that is
\* missing or is no integer reads as None
DailyForm ==
    [enabled |-> TRUE, recipient_email |-> "auditor@school.edu",
     frequency |-> "daily", hour_utc |-> 1, minute_utc |-> 0,
     weekday_utc |-> NoneInt]
ScheduleForms ==
    [enabled : BOOLEAN, recipient_email : {"", "auditor@school.edu"},
     frequency : {"daily", "weekly"}, hour_utc : {1}, minute_utc : {0},
     weekday_utc : {NoneInt, 0, 9}]
    \cup { [DailyForm EXCEPT !.frequency = "monthly"],
           [DailyForm EXCEPT !.hour_utc = NoneInt],
           [DailyForm EXCEPT !.hour_utc = 24],
           [DailyForm EXCEPT !.minute_utc = 60] }

\* A validation that lets an enabled schedule without a recipient through
ScheduleFormErrorNoRecipient(f) ==
    IF f.frequency \notin {"daily", "weekly"}
    THEN "Invalid snapshot schedule frequency."
    ELSE IF f.hour_utc = NoneInt \/ f.minute_utc = NoneInt
    THEN "Hour and minute are required for snapshot schedule."
    ELSE IF f.hour_utc < 0 \/ f.hour_utc > 23 \/ f.minute_utc < 0 \/ f.minute_utc > 59
    THEN "Snapshot schedule time is invalid."
    ELSE IF f.frequency = "weekly"
            /\ (f.weekday_utc = NoneInt \/ f.weekday_utc < 0 \/ f.weekday_utc > 6)
    THEN "Snapshot schedule weekday is invalid."
    ELSE ""

\* The flash of the first validation that turns the form away, "" when the
\* form passes them all
ScheduleFormError(f) ==
    IF f.frequency \notin {"daily", "weekly"}
    THEN "Invalid snapshot schedule frequency."
    ELSE IF f.hour_utc = NoneInt \/ f.minute_utc = NoneInt
    THEN "Hour and minute are required for snapshot schedule."
    ELSE IF f.hour_utc < 0 \/ f.hour_utc > 23 \/ f.minute_utc < 0 \/ f.minute_utc > 59
    THEN "Snapshot schedule time is invalid."
    ELSE IF f.frequency = "weekly"
            /\ (f.weekday_utc = NoneInt \/ f.weekday_utc < 0 \/ f.weekday_utc > 6)
    THEN "Snapshot schedule weekday is invalid."
    ELSE IF f.enabled /\ f.recipient_email = ""
    THEN "Recipient email is required when snapshot schedule is enabled."
    ELSE ""

\* reports.update_audit_snapshot_schedule: the form is validated, then the
\* row is written and committed; last_run_at is not among the columns set
UpdateAuditSnapshotSchedule(p, f) ==
    /\ req[p].pc = "idle"
    /\ IF ScheduleFormError(f) # ""
       THEN /\ req' = [req EXCEPT ![p] = Idle(ScheduleFormError(f))]
            /\ schedule' = schedule
       ELSE /\ req' = [req EXCEPT ![p] = Idle("Audit snapshot schedule saved.")]
            /\ schedule' =
                 [schedule EXCEPT
                    !.enabled = f.enabled,
                    !.recipient_email = f.recipient_email,
                    !.frequency = f.frequency,
                    !.hour_utc = f.hour_utc,
                    !.minute_utc = f.minute_utc,
                    !.weekday_utc = IF f.weekday_utc # NoneInt
                                    THEN f.weekday_utc ELSE 0]
    /\ UNCHANGED <<breakageVars, now, ledgerVars, users, assets, checkouts, channels,
                   snapLogs, outbox, localFiles, driveFiles, sheetLog,
                   localLog, run>>

NextSchedule ==
    \/ \E f \in ScheduleForms : UpdateAuditSnapshotSchedule("w1", f)
    \/ SchedPoll
    \/ SchedBuild
    \/ SchedEmail
    \/ SchedArtifacts
    \/ SchedFinish
    \/ SchedExcept
    \/ TickSchedule

\* The scheduler's thread while an administrator edits the schedule
SpecSchedule == Init /\ [][NextSchedule]_vars

\* ------------------------------------------------ mirror logs in sequence

\* No other run is between the read and the last append of its log rows
MirrorFree(t) ==
    \A u \in SnapThreads \ {t} :
        run[u].pc \notin {"sheet_append", "local_append"}

NextMirrorSeq ==
    \/ SchedPoll
    \/ SchedBuild
    \/ SchedEmail
    \/ MirrorFree("sched") /\ SchedArtifacts
    \/ SchedFinish
    \/ SchedExcept
    \/ \E form \in ManualForms : ManualStart(form[1], form[2])
    \/ ManualBuild
    \/ MirrorFree("manual") /\ ManualArtifacts
    \/ ManualDeliver
    \/ \E t \in SnapThreads : WriteAuditLogSheet(t)
    \/ \E t \in SnapThreads : WriteAuditLogLocal(t)
    \/ \E enabled \in BOOLEAN : UpdateAuditLedger("w1", enabled)
    \/ ViewAuditLog
    \/ Tick

\* Snapshot runs whose calls of the two log writers come one after another
SpecMirrorSeq == InitSnapshot /\ [][NextMirrorSeq]_vars

\* ------------------------------------------------- building a bundle

\* _to_text(value) of a text, an integer and a datetime column
TextOf(v) == IF v = None THEN "" ELSE v
IntText(n) == IF n = NoneInt THEN "" ELSE IntStr(n)
DateText(t) == IF t = NoneInt THEN "" ELSE Strftime(t)

\* csv.writer line of already converted cells
CsvLine(cells) == Join(cells, ",") \o "\r\n"
\* _csv_bytes(columns, rows)
CsvBytes(columns, rows) ==
    CsvLine(columns) \o Join([i \in DOMAIN rows |-> CsvLine(rows[i])], "")

\* strftime('%Y-%m-%dT%H:%M:%SZ')
StrftimeZ(t) ==
    "2024-01-" \o Pad2(DayOf(t) + 1) \o "T" \o Pad2(HourOf(t)) \o ":"
        \o Pad2(MinuteOf(t)) \o ":00Z"

\* The repair_tickets rows of the dataset, in id order; no modelled
\* operation writes them
RepairTickets ==
    << [asset_id |-> 1, status |-> "open", created_at |-> 0, updated_at |-> 30],
       [asset_id |-> 2, status |-> "closed", created_at |-> 10, updated_at |-> 30] >>

\* What a query with ORDER BY can return: the ids 1..n in any order that
\* agrees with the ordering key; rows of equal key come in either order
OrderByDesc(keys) ==
    { s \in [DOMAIN keys -> DOMAIN keys] :
        /\ \A i, j \in DOMAIN keys : i # j => s[i] # s[j]
        /\ \A i, j \in DOMAIN keys : i < j => keys[s[i]] >= keys[s[j]] }

\* The ids of the checkouts rows that the assignments query selects
ActiveIds == {i \in DOMAIN checkouts : checkouts[i].checked_in_date = NoneInt}
\* The sub-sequence of order `s` with the ids in `keep`
RECURSIVE Keep(_, _)
Keep(s, keep) ==
    IF s = <<>> THEN <<>>
    ELSE (IF Head(s) \in keep THEN <<Head(s)>> ELSE <<>>) \o Keep(Tail(s), keep)

\* The columns the model's rows do not carry are NULL
AssignmentRow(i) ==
    << IntStr(i), AssetTag(checkouts[i].asset_id), "",
       TextOf(checkouts[i].checked_out_to), UserName(checkouts[i].checked_out_by),
       DateText(checkouts[i].checkout_date), "",
       assets[checkouts[i].asset_id].status >>
AssetRow(a) ==
    << IntStr(a), AssetTag(a), "", "", "", "", assets[a].status, "", "", "",
       assets[a].condition, "False", "", "" >>
RepairRow(i) ==
    << IntStr(i), AssetTag(RepairTickets[i].asset_id), RepairTickets[i].status,
       "", DateText(RepairTickets[i].created_at),
       DateText(RepairTickets[i].updated_at) >>
EventRow(i) ==
    << IntStr(i), AssetTag(checkouts[i].asset_id),
       TextOf(checkouts[i].checked_out_to), UserName(checkouts[i].checked_out_by),
       DateText(checkouts[i].checkout_date), DateText(checkouts[i].checked_in_date),
       TextOf(checkouts[i].checkin_condition), "" >>
UserRow(u) ==
    << IntStr(u), UserName(u) \o "@school.edu", UserName(u), "staff", "", "",
       "False", "" >>

\* The ids of a set in rising order: asset tags and user names rise with
\* the id
RECURSIVE Rising(_)
Rising(ids) ==
    IF ids = {} THEN <<>>
    ELSE LET m == CHOOSE x \in ids : \A y \in ids : x <= y
         IN  <<m>> \o Rising(ids \ {m})

Readme(t) ==
    "Audit-Ready Snapshot\nGenerated UTC: " \o StrftimeZ(t) \o "\n\nFiles:\n"
      \o "- manifest.json: file metadata and hashes\n"
      \o "- manifest.sha256: sha256 hash of manifest.json\n"
      \o "- current_assignments.csv: active assignments\n"
      \o "- assets.csv: asset records\n"
      \o "- repairs.csv: repair records\n"
      \o "- assignment_events.csv: checkout/checkin history\n"
      \o "- users.csv: user records\n\n"
      \o "Integrity:\n"
      \o "Recompute each file hash and compare to manifest.json.\n"

\* _build_snapshot_files() at t, the assignments and events queries
\* returning the checkouts in order ce and the repairs query in order re
BuildSnapshotFiles(ce, ca, re, t) ==
    [name \in {"current_assignments.csv", "assets.csv", "repairs.csv",
               "assignment_events.csv", "users.csv", "README.txt"} |->
      CASE name = "current_assignments.csv" ->
             CsvBytes(<<"checkout_id", "asset_tag", "asset_name",
                        "checked_out_to", "checked_out_by", "checkout_date",
                        "expected_return_date", "asset_status">>,
                      [i \in 1..Len(Keep(ca, ActiveIds)) |->
                           AssignmentRow(Keep(ca, ActiveIds)[i])])
        [] name = "assets.csv" ->
             CsvBytes(<<"id", "asset_tag", "name", "category", "type",
                        "serial_number", "status", "location", "purchase_date",
                        "purchase_cost", "condition", "repeat_breakage_flag",
                        "created_at", "updated_at">>,
                      [i \in 1..Cardinality(DOMAIN assets) |->
                           AssetRow(Rising(DOMAIN assets)[i])])
        [] name = "repairs.csv" ->
             CsvBytes(<<"repair_id", "asset_tag", "status", "notes",
                        "created_at", "updated_at">>,
                      [i \in DOMAIN re |-> RepairRow(re[i])])
        [] name = "assignment_events.csv" ->
             CsvBytes(<<"checkout_id", "asset_tag", "checked_out_to",
                        "checked_out_by", "checkout_date", "checked_in_date",
                        "checkin_condition", "checkin_notes">>,
                      [i \in DOMAIN ce |-> EventRow(ce[i])])
        [] name = "users.csv" ->
             CsvBytes(<<"id", "email", "name", "role", "asset_tag",
                        "grade_level", "repeat_breakage_flag", "created_at">>,
                      [i \in 1..Cardinality(users) |-> UserRow(Rising(users)[i])])
        [] name = "README.txt" -> Readme(t) ]

\* A manifest entry that records nothing of the file
FileMetaBlank(data) == [sha256 |-> Sha256(""), size_bytes |-> 0]
\* manifest['files'][name]
FileMeta(data) == [sha256 |-> Sha256(data), size_bytes |-> Len(data)]

\* The names of a manifest's files in sorted order
SortedNames ==
    <<"README.txt", "assets.csv", "assignment_events.csv",
      "current_assignments.csv", "repairs.csv", "users.csv">>

\* json.dumps(manifest, indent=2, sort_keys=True) of a manifest that has no
\* manifest_sha256 key yet
ManifestJson(manifest) ==
    "{\n  \"files\": {\n"
      \o Join([i \in DOMAIN SortedNames |->
                 "    " \o JsonStr(SortedNames[i]) \o ": {\n      \"sha256\": "
                   \o JsonStr(manifest.files[SortedNames[i]].sha256)
                   \o ",\n      \"size_bytes\": "
                   \o IntStr(manifest.files[SortedNames[i]].size_bytes)
                   \o "\n    }"], ",\n")
      \o "\n  },\n  \"snapshot_generated_at_utc\": "
      \o JsonStr(manifest.snapshot_generated_at_utc) \o "\n}"

\* build_audit_snapshot_bundle() over the files that were built: the
\* members of the archive, manifest_sha and the manifest that is returned
BuildAuditSnapshotBundle(files, t) ==
    LET manifest == [snapshot_generated_at_utc |-> StrftimeZ(t),
                     files |-> [name \in DOMAIN files |-> FileMeta(files[name])]]
        manifest_json_bytes == ManifestJson(manifest)
        manifest_sha == Sha256(manifest_json_bytes)
    IN  [zip |-> [name \in DOMAIN files \cup {"manifest.json", "manifest.sha256"} |->
                    IF name = "manifest.json" THEN manifest_json_bytes
                    ELSE IF name = "manifest.sha256"
                         THEN manifest_sha \o "  manifest.json\n"
                         ELSE files[name]],
         manifest_sha |-> manifest_sha,
         manifest |-> [snapshot_generated_at_utc |-> manifest.snapshot_generated_at_utc,
                       files |-> manifest.files,
                       manifest_sha256 |-> manifest_sha]]

\* Thread t builds a bundle and keeps what the call returned
BuildBundle(t) ==
    /\ run[t].pc = "idle"
    /\ \E ce \in OrderByDesc([i \in DOMAIN checkouts |-> checkouts[i].checkout_date]),
          ca \in OrderByDesc([i \in DOMAIN checkouts |-> checkouts[i].checkout_date]),
          re \in OrderByDesc([i \in DOMAIN RepairTickets |-> RepairTickets[i].updated_at]) :
         run' = [run EXCEPT ![t] =
             [NoRun EXCEPT !.built = TRUE,
                           !.bundle = BuildAuditSnapshotBundle(
                                          BuildSnapshotFiles(ce, ca, re, now), now)]]
    /\ UNCHANGED <<breakageVars, now, ledgerVars, domainVars, schedule, channels, snapLogs,
                   outbox, localFiles, driveFiles, sheetLog, localLog>>

\* The checkouts tables the bundle is built of: up to two rows, each open
\* or returned, taken out at 00:00 or at 00:30
CheckoutTables ==
    LET rows(a) == { [asset_id |-> a, checked_out_to |-> UserName(2),
                      checked_out_by |-> CurrentUser, checkout_date |-> d,
                      expected_return_date |-> NoneInt,
                      checked_in_date |-> r,
                      checkin_condition |-> IF r = NoneInt THEN None ELSE "good"] :
                     d \in {0, 30}, r \in {NoneInt, 40} }
    IN  {<<>>} \cup {<<c>> : c \in rows(1)}
               \cup {<<c, e>> : c \in rows(1), e \in rows(2)}

InitBundle ==
    /\ now = 55
    /\ setting = "absent"
    /\ ledger = <<>>
    /\ users = {1, 2, 3}
    /\ checkouts \in CheckoutTables
    /\ assets = [a \in {1, 2} |->
                   IF \E i \in DOMAIN checkouts :
                        /\ checkouts[i].asset_id = a
                        /\ checkouts[i].checked_in_date = NoneInt
                   THEN [status |-> "checked_out", condition |-> "good"]
                   ELSE [status |-> "available", condition |-> "good"]]
    /\ req = [p \in WebThreads |-> Idle("")]
    /\ schedule = DefaultSchedule
    /\ channels = {}
    /\ snapLogs = <<>>
    /\ outbox = <<>>
    /\ localFiles = {}
    /\ driveFiles = {}
    /\ sheetLog = <<>>
    /\ localLog = <<>>
    /\ run = [t \in SnapThreads |-> NoRun]
    /\ incidents = <<>>
    /\ repeat_breakage_flag = [e \in Entities |-> FALSE]

NextBundle ==
    \/ \E t \in SnapThreads : BuildBundle(t)
    \/ Tick

\* Bundles built of a dataset that no one changes
SpecBundle == InitBundle /\ [][NextBundle]_vars

\* -------------------------------------------------------- repeat breakage

REPEAT_BREAKAGE_WINDOW_DAYS == 180
REPEAT_BREAKAGE_THRESHOLD == 3

\* The days on which the clock is read: day 180 is the last day on which an
\* incident of day 0 still lies inside the window
IncidentDays == {0, 90, 180, 181}
TickBreakage ==
    /\ \E d \in IncidentDays :
         /\ d * MinutesPerDay + 55 > now
         /\ now' = d * MinutesPerDay + 55
    /\ UNCHANGED <<ledgerVars, domainVars, snapshotVars, breakageVars>>

\* _find_user_for_checked_out_to(checked_out_to): the user whose email or,
\* failing that, whose name is the given text (all texts are lower-case)
FindUserForCheckedOutTo(checked_out_to) ==
    IF checked_out_to = "" \/ checked_out_to = None THEN NoneInt
    ELSE IF \E u \in users : UserName(u) \o "@school.edu" = checked_out_to
         THEN CHOOSE u \in users : UserName(u) \o "@school.edu" = checked_out_to
    ELSE IF \E u \in users : UserName(u) = checked_out_to
         THEN CHOOSE u \in users : UserName(u) = checked_out_to
    ELSE NoneInt

\* A threshold that the third incident does not yet reach
IsFlaggedAbove(count) == count > REPEAT_BREAKAGE_THRESHOLD
\* _is_flagged(count)
IsFlagged(count) == count >= REPEAT_BREAKAGE_THRESHOLD

\* The .count() of the incidents of one asset or user since window_start
IncidentCount(rows, column, id, window_start) ==
    Cardinality({i \in DOMAIN rows :
                    rows[i][column] = id /\ rows[i].incident_date >= window_start})

\* A refresh that recomputes the flag of every asset and user
RefreshEveryFlag(flags, rows, asset_id, user_id, t) ==
    [e \in DOMAIN flags |->
       IsFlagged(IncidentCount(rows, IF e[1] = "asset" THEN "asset_id" ELSE "user_id",
                               e[2], t - REPEAT_BREAKAGE_WINDOW_DAYS * MinutesPerDay))]

\* refresh_repeat_breakage_flags(asset_id, user_id) at time t over the
\* incidents `rows`, the pending one included (the count query flushes it)
RefreshRepeatBreakageFlags(flags, rows, asset_id, user_id, t) ==
    LET window_start == t - REPEAT_BREAKAGE_WINDOW_DAYS * MinutesPerDay
    IN  [e \in DOMAIN flags |->
           IF asset_id # NoneInt /\ asset_id # 0 /\ asset_id \in DOMAIN assets
                /\ e = <<"asset", asset_id>>
           THEN IsFlagged(IncidentCount(rows, "asset_id", asset_id, window_start))
           ELSE IF user_id # NoneInt /\ user_id # 0 /\ user_id \in users
                     /\ e = <<"user", user_id>>
           THEN IsFlagged(IncidentCount(rows, "user_id", user_id, window_start))
           ELSE flags[e]]

\* The damage_incidents row of record_damage_incident, inserted at time t
DamageIncident(asset_id, checked_out_to, t) ==
    [asset_id |-> asset_id,
     user_id |-> FindUserForCheckedOutTo(checked_out_to),
     checked_out_to |-> Or(checked_out_to, "Unknown"),
     incident_date |-> t]

\* record_damage_incident(asset_id, checked_out_to, ...) and the commit of
\* the handler that called it
RecordDamageIncident(asset_id, checked_out_to) ==
    /\ Len(incidents) < MaxIncidents
    /\ incidents' = Append(incidents, DamageIncident(asset_id, checked_out_to, now))
    /\ repeat_breakage_flag' =
           RefreshRepeatBreakageFlags(repeat_breakage_flag, incidents', asset_id,
                                      FindUserForCheckedOutTo(checked_out_to), now)
    /\ UNCHANGED <<now, ledgerVars, domainVars, snapshotVars>>

NextBreakage ==
    \/ \E a \in {1, 2}, to \in {UserName(2), ""} : RecordDamageIncident(a, to)
    \/ TickBreakage

\* Damage incidents recorded one after another while time passes
SpecBreakage == Init /\ [][NextBreakage]_vars

\* ------------------------------------------------------ a weekly schedule

\* Weekly schedules as update_audit_snapshot_schedule stores them: every
\* weekday, at 01:00
WeeklySchedules ==
    { [DefaultSchedule EXCEPT !.enabled = TRUE,
                              !.recipient_email = "auditor@school.edu",
                              !.frequency = "weekly", !.weekday_utc = wd] :
        wd \in 0..6 }

WeeklyPoints ==
    {d * MinutesPerDay + m : d \in 0..MaxWeeklyDay, m \in MinuteMarks}

\* Time passes, as in Tick, over the days of more than a week
TickWeekly ==
    /\ \A t \in DOMAIN run : run[t].pc = "idle"
    /\ \E t \in WeeklyPoints : t > now /\ now' = t
    /\ UNCHANGED <<ledgerVars, domainVars, snapshotVars, breakageVars>>

InitWeekly ==
    /\ InitData
    /\ schedule \in WeeklySchedules
    /\ channels = {}

NextWeekly ==
    \/ SchedPoll
    \/ SchedBuild
    \/ SchedEmail
    \/ SchedArtifacts
    \/ SchedFinish
    \/ SchedExcept
    \/ TickWeekly

\* The scheduler's thread under a weekly schedule
SpecWeekly == InitWeekly /\ [][NextWeekly]_vars

\* ------------------------------------------- checkouts and loaner swaps

\* _match_user_by_identifier(identifier): no user row carries an asset tag,
\* so a text without '@' is matched by name (all texts are lower-case)
MatchUserByIdentifier(identifier) ==
    IF identifier = "" THEN NoneInt
    ELSE IF \E u \in users : UserName(u) = identifier
         THEN CHOOSE u \in users : UserName(u) = identifier
    ELSE NoneInt

CheckoutPayload(a, row) ==
    JsonDumps(<< <<"asset_id", IntStr(a)>>,
                 <<"asset_tag", JsonStr(AssetTag(a))>>,
                 <<"checked_out_to", JsonStr(row.checked_out_to)>>,
                 <<"checkout_mode", JsonStr("assets")>>,
                 <<"expected_return_date",
                   IF row.expected_return_date = NoneInt THEN "null"
                   ELSE JsonStr("2024-01-" \o Pad2(row.expected_return_date + 1))>>,
                 <<"non_returnable", "false">> >>)

SwapPayload(broken, loaner, checked_out_to) ==
    JsonDumps(<< <<"broken_asset_id", IntStr(broken)>>,
                 <<"broken_asset_tag", JsonStr(AssetTag(broken))>>,
                 <<"checked_out_to", JsonStr(checked_out_to)>>,
                 <<"loaner_asset_id", IntStr(loaner)>>,
                 <<"loaner_asset_tag", JsonStr(AssetTag(loaner))>> >>)

\* What the ledger write of a handler raises under `fault`, "" for nothing
LedgerRaises(e, fault) ==
    IF ~IsLedgerEnabled(setting) THEN ""
    ELSE IF fault = "tail_read" THEN TailReadError
    ELSE IF fault = "insert" \/ EntryHashTaken(ledger, e.entry_hash)
    THEN InsertError
    ELSE ""

\* checkouts.checkout (POST, mode 'assets') down to the Checkout(...) it
\* builds: the asset is read and must be available, the person must be
\* named; a matched user's name replaces the text.  Nothing is written yet.
CheckoutBegin(p, a, checked_out_to, due) ==
    /\ req[p].pc = "idle"
    /\ Len(checkouts) < MaxCheckouts
    /\ IsLedgerEnabled(setting) => Len(ledger) < MaxLedger
    /\ a \in DOMAIN assets
    /\ req' = [req EXCEPT ![p] =
           IF assets[a].status # "available"
           THEN Idle("Asset " \o AssetTag(a) \o " is not available for checkout.")
           ELSE IF checked_out_to = ""
           THEN Idle("Please enter who the asset is checked out to.")
           ELSE [Idle("") EXCEPT
                   !.pc = "commit", !.handler = "checkout", !.arg = a,
                   !.to = IF MatchUserByIdentifier(checked_out_to) # NoneInt
                          THEN UserName(MatchUserByIdentifier(checked_out_to))
                          ELSE checked_out_to,
                   !.due = due]]
    /\ UNCHANGED <<now, ledgerVars, users, assets, checkouts, snapshotVars,
                   breakageVars>>

\* The checkouts row of checkouts.checkout, inserted at t
CheckoutRecord(a, checked_out_to, due, t) ==
    [asset_id |-> a, checked_out_to |-> checked_out_to,
     checked_out_by |-> CurrentUser, checkout_date |-> t,
     expected_return_date |-> due, checked_in_date |-> NoneInt,
     checkin_condition |-> None]

\* checkouts.checkout from db.session.flush() to the commit, under the
\* write lock: the row is inserted, the asset is marked checked_out and the
\* ledger entry is written; any exception rolls all of it back
CheckoutCommit(p) ==
    /\ req[p].pc = "commit"
    /\ req[p].handler = "checkout"
    /\ \E fault \in {"none", "insert"} :
         LET a == req[p].arg
             row == CheckoutRecord(a, req[p].to, req[p].due, now)
             e == NewEntry(LatestEntryHash(ledger), now, "asset_checked_out",
                           "checkout", Len(checkouts) + 1, CurrentUser,
                           CheckoutPayload(a, row))
         IN  IF LedgerRaises(e, fault) # ""
             THEN /\ req' = [req EXCEPT ![p] =
                          Idle("Error checking out asset: " \o LedgerRaises(e, fault))]
                  /\ UNCHANGED <<assets, checkouts, ledger>>
             ELSE /\ checkouts' = Append(checkouts, row)
                  /\ assets' = [assets EXCEPT ![a].status = "checked_out"]
                  /\ ledger' = IF IsLedgerEnabled(setting)
                               THEN InsertEntry(ledger, e) ELSE ledger
                  /\ req' = [req EXCEPT ![p] =
                          Idle("Asset " \o AssetTag(a) \o " checked out to "
                                   \o row.checked_out_to \o "!")]
    /\ UNCHANGED <<now, setting, users, snapshotVars, breakageVars>>

\* checkouts.loaner_swap (POST) down to the form data: both assets and the
\* broken asset's active checkout are read and validated.  Nothing is
\* written yet.
LoanerSwapBegin(p, broken, loaner) ==
    /\ req[p].pc = "idle"
    /\ Len(checkouts) < MaxCheckouts
    /\ Len(incidents) < MaxIncidents
    /\ IsLedgerEnabled(setting) => Len(ledger) < MaxLedger
    /\ broken \in DOMAIN assets
    /\ loaner \in DOMAIN assets
    /\ req' = [req EXCEPT ![p] =
           IF CurrentCheckout(checkouts, broken) = 0
           THEN Idle("Asset " \o AssetTag(broken) \o " is not currently checked out.")
           ELSE IF assets[loaner].status # "available"
           THEN Idle("Loaner " \o AssetTag(loaner) \o " is not available.")
           ELSE [Idle("") EXCEPT
                   !.pc = "commit", !.handler = "loaner_swap", !.arg = broken,
                   !.co = CurrentCheckout(checkouts, broken), !.loaner = loaner,
                   !.to = checkouts[CurrentCheckout(checkouts, broken)].checked_out_to,
                   !.due = checkouts[CurrentCheckout(checkouts, broken)].expected_return_date]]
    /\ UNCHANGED <<now, ledgerVars, users, assets, checkouts, snapshotVars,
                   breakageVars>>

\* loaner_checkout of loaner_swap: made out to the person of the broken
\* asset's checkout, with its expected return date if it has one
LoanerCheckout(loaner, checked_out_to, due, t) ==
    CheckoutRecord(loaner, checked_out_to, due, t)

\* checkouts.loaner_swap from its first flush (taken by the current_repair
\* query) to the commit, under the write lock: the broken asset's checkout
\* is closed, the asset goes to maintenance, the damage incident is
\* recorded, the loaner's checkout is inserted and the ledger entry is
\* written; any exception rolls all of it back.  (The flash text starts
\* with a check mark that is left out here.)
LoanerSwapCommit(p) ==
    /\ req[p].pc = "commit"
    /\ req[p].handler = "loaner_swap"
    /\ \E fault \in {"none", "insert"} :
         LET broken == req[p].arg
             loaner == req[p].loaner
             c == req[p].co
             e == NewEntry(LatestEntryHash(ledger), now, "loaner_swap",
                           "checkout", Len(checkouts) + 1, CurrentUser,
                           SwapPayload(broken, loaner, req[p].to))
         IN  IF LedgerRaises(e, fault) # ""
             THEN /\ req' = [req EXCEPT ![p] =
                          Idle("Error performing loaner swap: "
                                   \o LedgerRaises(e, fault))]
                  /\ UNCHANGED <<assets, checkouts, ledger, breakageVars>>
             ELSE /\ checkouts' =
                        Append([checkouts EXCEPT
                                   ![c].checked_in_date = now,
                                   ![c].checkin_condition = "needs_repair"],
                               LoanerCheckout(loaner, req[p].to, req[p].due, now))
                  /\ assets' = [assets EXCEPT
                        ![broken] = [status |-> "maintenance",
                                     condition |-> "needs_repair"],
                        ![loaner].status = "checked_out"]
                  /\ incidents' = Append(incidents,
                                         DamageIncident(broken, req[p].to, now))
                  /\ repeat_breakage_flag' =
                        RefreshRepeatBreakageFlags(repeat_breakage_flag, incidents',
                            broken, FindUserForCheckedOutTo(req[p].to), now)
                  /\ ledger' = IF IsLedgerEnabled(setting)
                               THEN InsertEntry(ledger, e) ELSE ledger
                  /\ req' = [req EXCEPT ![p] =
                          Idle("Swap completed! " \o AssetTag(broken)
                                   \o " (broken) checked in -> " \o AssetTag(loaner)
                                   \o " (loaner) checked out to " \o req[p].to)]
    /\ UNCHANGED <<now, setting, users, snapshotVars>>

\* The forms posted to checkouts.checkout: the person and the expected
\* return date (a day of January 2024, or none)
CheckoutForms == {<<UserName(3), NoneInt>>, <<"pat lee", 5>>, <<"", NoneInt>>}

\* One step of a checkout, check-in or loaner-swap request of web thread p
DeskStep(p) ==
    \/ \E a \in {1, 2}, f \in CheckoutForms : CheckoutBegin(p, a, f[1], f[2])
    \/ CheckoutCommit(p)
    \/ \E a \in {1, 2} : CheckinBegin(p, a, "good")
    \/ CheckinCommit(p)
    \/ \E broken \in {1, 2}, loaner \in {1, 2} : LoanerSwapBegin(p, broken, loaner)
    \/ LoanerSwapCommit(p)

\* The data of InitData with the ledger switched on or off and the open
\* checkout of asset 1 with or without an expected return date
InitDesk ==
    /\ now = 55
    /\ setting \in {"true", "false"}
    /\ ledger = <<>>
    /\ users = {1, 2, 3}
    /\ assets = [a \in {1, 2} |->
                   IF a = 1 THEN [status |-> "checked_out", condition |-> "good"]
                   ELSE [status |-> "available", condition |-> "good"]]
    /\ \E due \in {NoneInt, 5} :
         checkouts = << CheckoutRecord(1, UserName(2), due, 0) >>
    /\ req = [p \in WebThreads |-> Idle("")]
    /\ schedule = DefaultSchedule
    /\ channels = {}
    /\ snapLogs = <<>>
    /\ outbox = <<>>
    /\ localFiles = {}
    /\ driveFiles = {}
    /\ sheetLog = <<>>
    /\ localLog = <<>>
    /\ run = [t \in SnapThreads |-> NoRun]
    /\ incidents = <<>>
    /\ repeat_breakage_flag = [e \in Entities |-> FALSE]

NextDesk == \E p \in WebThreads : DeskStep(p)

\* Checkout, check-in and loaner-swap requests on concurrent web threads
SpecDesk == InitDesk /\ [][NextDesk]_vars

\* --------------------------------------------- polling at a fixed interval

\* Config.SNAPSHOT_SCHEDULER_INTERVAL_MINUTES, the default
SNAPSHOT_SCHEDULER_INTERVAL_MINUTES == 5

MaxPollDay == 1         \* the scheduler polls through day 0 .. MaxPollDay

\* Daily schedules saved by an administrator; the first poll is at 00:55,
\* so the polls fall on the minutes 0, 5, .. 55 of every hour
PollSchedules ==
    { [DefaultSchedule EXCEPT !.enabled = TRUE,
                              !.recipient_email = "auditor@school.edu",
                              !.hour_utc = hm[1], !.minute_utc = hm[2]] :
        hm \in { <<1, 0>>, <<0, 30>>, <<12, 2>>, <<23, 55>>, <<23, 58>> } }

\* The job function audit_snapshot_schedule_job, called when the interval
\* trigger fires
IntervalPoll ==
    /\ run["sched"].result = ""
    /\ SchedPoll

\* IntervalTrigger(minutes = SNAPSHOT_SCHEDULER_INTERVAL_MINUTES): the job
\* has returned (its reply is dropped) and the trigger fires again one
\* interval after it fired last
PollTick ==
    /\ run["sched"].pc = "idle"
    /\ run["sched"].result # ""
    /\ now + SNAPSHOT_SCHEDULER_INTERVAL_MINUTES < (MaxPollDay + 1) * MinutesPerDay
    /\ now' = now + SNAPSHOT_SCHEDULER_INTERVAL_MINUTES
    /\ run' = [run EXCEPT !["sched"] = NoRun]
    /\ UNCHANGED <<breakageVars, ledgerVars, domainVars, schedule, channels,
                   snapLogs, outbox, localFiles, driveFiles, sheetLog, localLog>>

InitPoll ==
    /\ InitData
    /\ schedule \in PollSchedules
    /\ channels = {}

NextPoll ==
    \/ IntervalPoll
    \/ SchedBuild
    \/ SchedEmail
    \/ SchedArtifacts
    \/ SchedFinish
    \/ SchedExcept
    \/ PollTick

\* The scheduler's background thread runs for as long as the application:
\* the trigger keeps firing and a started job runs to its end
SpecPoll == InitPoll /\ [][NextPoll]_vars /\ WF_vars(NextPoll)

\* ------------------------------------------- recomputing a stored entry

\* The digest an auditor recomputes from the stored columns of entry e
RecomputeEntryHash(e) ==
    ComputeEntryHash(e.prev_hash, e.created_at, e.event_type, e.entity_type,
                     e.entity_id, e.actor_id, e.payload_json)

\* The columns the digest is taken of, and values a column can hold
HashedFields ==
    {"prev_hash", "created_at", "event_type", "entity_type", "entity_id",
     "actor_id", "payload_json"}
FieldValues(field) ==
    CASE field = "prev_hash" -> {None, "", RecomputeEntryHash(
                                     NewEntry("", 55, "user_deleted", "user",
                                              3, CurrentUser, ""))}
      [] field = "created_at" -> {55, 60}
      [] field = "event_type" -> {"user_deleted", "asset_checked_in"}
      [] field = "entity_type" -> {"user", "checkout"}
      [] field = "entity_id" -> {NoneInt, 1, 2}
      [] field = "actor_id" -> {NoneInt, CurrentUser}
      [] field = "payload_json" -> {None, "", "{}"}

\* A ledger of one entry as append_ledger_entry stores it
InitStored ==
    /\ now = 60
    /\ setting = "true"
    /\ \E prev_hash \in FieldValues("prev_hash") \ {None},
          created_at \in FieldValues("created_at"),
          event_type \in FieldValues("event_type"),
          entity_type \in FieldValues("entity_type"),
          entity_id \in FieldValues("entity_id"),
          actor_id \in FieldValues("actor_id"),
          payload_json \in FieldValues("payload_json") \ {None} :
            ledger = << NewEntry(prev_hash, created_at, event_type,
                                 entity_type, entity_id, actor_id,
                                 payload_json) >>
    /\ users = {1, 2, 3}
    /\ assets = [a \in {1, 2} |-> [status |-> "available", condition |-> "good"]]
    /\ checkouts = <<>>
    /\ req = [p \in WebThreads |-> Idle("")]
    /\ schedule = DefaultSchedule
    /\ channels = {}
    /\ snapLogs = <<>>
    /\ outbox = <<>>
    /\ localFiles = {}
    /\ driveFiles = {}
    /\ sheetLog = <<>>
    /\ localLog = <<>>
    /\ run = [t \in SnapThreads |-> NoRun]
    /\ incidents = <<>>
    /\ repeat_breakage_flag = [e \in Entities |-> FALSE]

\* One column of the stored entry is read as the different value v and the
\* digest is recomputed; the caller keeps the column's name and the digest
RecomputeChanged(p, field, v) ==
    /\ ledger # <<>>
    /\ v # ledger[1][field]
    /\ req' = [req EXCEPT ![p] =
           [Idle(RecomputeEntryHash([ledger[1] EXCEPT ![field] = v]))
                EXCEPT !.handler = field]]
    /\ UNCHANGED <<breakageVars, now, ledgerVars, users, assets, checkouts, snapshotVars>>

NextRecompute ==
    \E field \in HashedFields :
        \E v \in FieldValues(field) : RecomputeChanged("w1", field, v)

SpecRecompute == InitStored /\ [][NextRecompute]_vars

\* ---------------------------------------------- digests of two field tuples

\* Arguments _compute_entry_hash is called with: text fields with and
\* without the delimiter, empty and None, ids set and None
HashInputs ==
    [ created_at   : {55},
      event_type   : {"note", "note|user"},
      entity_type  : {None, "", "user", "user|1"},
      entity_id    : {NoneInt, 1},
      actor_id     : {NoneInt, CurrentUser},
      payload_json : {None, "", "{}", "1|{}"} ]

\* _compute_entry_hash(prev_hash, *fields) over the tail of the ledger; the
\* caller keeps the arguments and the digest
ComputeFor(p, fields) ==
    /\ req[p].pc = "idle"
    /\ LET h == ComputeEntryHash(LatestEntryHash(ledger), fields.created_at,
                                 fields.event_type, fields.entity_type,
                                 fields.entity_id, fields.actor_id,
                                 fields.payload_json)
       IN  req' = [req EXCEPT ![p] =
               [Idle(h) EXCEPT !.handler = "_compute_entry_hash",
                               !.entry = fields]]
    /\ UNCHANGED <<breakageVars, now, ledgerVars, users, assets, checkouts, snapshotVars>>

NextPreHash == \E p \in WebThreads, fields \in HashInputs : ComputeFor(p, fields)

\* Two callers take the digest of field tuples over the same prev_hash
SpecPreHash == Init /\ [][NextPreHash]_vars

\* ------------------------------------------------------------ ledger claims

\* The entry at position i of the stored ledger recomputes to its own hash
Recomputes(e) ==
    e.entry_hash = ComputeEntryHash(e.prev_hash, e.created_at, e.event_type,
                                    e.entity_type, e.entity_id, e.actor_id,
                                    e.payload_json)

\* C1: when the appends are made one after another, every stored entry's
\* entry_hash is the digest of its stored prev_hash and stored fields, the
\* first entry's prev_hash is empty, and every later entry's prev_hash is
\* the entry_hash of the entry before it.
C1_ChainIntact ==
    \A i \in DOMAIN ledger :
        /\ Recomputes(ledger[i])
        /\ i = 1 => Or(ledger[i].prev_hash, "") = ""
        /\ i > 1 => ledger[i].prev_hash = ledger[i - 1].entry_hash

\* Two appends of different handlers have been made one after the other
C1_TwoAppended ==
    /\ Len(ledger) = 2
    /\ ledger[1].event_type # ledger[2].event_type
    /\ ledger[2].prev_hash = ledger[1].entry_hash

\* C2: no two stored ledger entries share one predecessor hash, whatever
\* the interleaving of the handlers that append them.
C2_NoFork ==
    \A i, j \in DOMAIN ledger :
        i # j => ledger[i].prev_hash # ledger[j].prev_hash

\* The replies that carry the text of a failed ledger write
LedgerFlashes ==
    {prefix \o e : prefix \in {"Error checking in asset: ", "Error deleting user: "},
                   e \in LedgerErrors}

\* C4: a failure of the ledger write never fails the domain operation that
\* made it: no handler answers its caller with the error of a ledger write.
C4_LedgerFailureSwallowed ==
    \A p \in WebThreads : req[p].result \notin LedgerFlashes

\* C5: while the ledger setting is absent or not 'true', a handler's
\* append_ledger_entry call writes nothing (no entry is pending, the stored
\* ledger stays as it is) and raises nothing.
C5_DisabledAppendIsNoOp ==
    [][setting # "true" =>
          /\ ledger' = ledger
          /\ \A p \in WebThreads :
                /\ req'[p].entry = NoEntry
                /\ req'[p].result # req[p].result => req'[p].result \notin LedgerFlashes
      ]_vars

\* A handler has called append_ledger_entry with the ledger switched off
\* after an entry had been written, and no entry is pending
C5_CalledWhileDisabled ==
    /\ setting = "false"
    /\ Len(ledger) > 0
    /\ \E p \in WebThreads :
          /\ req[p].pc = "commit"
          /\ req[p].handler = "delete"
          /\ req[p].entry = NoEntry

\* C6: after any operation the committed ledger is the committed ledger
\* before it, possibly extended at the end.
C6_AppendOnly ==
    [][/\ Len(ledger') >= Len(ledger)
       /\ SubSeq(ledger', 1, Len(ledger)) = ledger]_vars

\* Two snapshot rows have been logged to the ledger and the ledger has been
\* switched off afterwards
C6_LoggedThenDisabled ==
    /\ Len(ledger) = 2
    /\ ledger[1].event_type = "audit_snapshot"
    /\ ledger[2].prev_hash = ledger[1].entry_hash
    /\ setting = "false"

\* ---------------------------------------------------------- snapshot claims

\* The scheduled rows of the log that lie in the same schedule window
SameWindow(r1, r2) ==
    ScheduledAt(schedule, r1.generated_at) = ScheduledAt(schedule, r2.generated_at)
ScheduledRows(rows, statuses) ==
    {i \in DOMAIN rows : rows[i].trigger_type = "scheduled"
                            /\ rows[i].status \in statuses}

\* C3 as stated: at most one poll per schedule window fires, whatever the
\* outcome of the run it starts; every poll that fires leaves one scheduled
\* row, so no window holds two scheduled rows.
C3_OneFirePerWindow ==
    \A i, j \in ScheduledRows(snapLogs, {"success", "failed"}) :
        SameWindow(snapLogs[i], snapLogs[j]) => i = j

\* C3 amended: at most one poll per schedule window starts a run that ends
\* in success, and once last_run_at is at or after the start of the current
\* window every further poll of that window reports that the snapshot was
\* already generated and starts nothing.
C3_OneSuccessPerWindow ==
    [][/\ \A i, j \in ScheduledRows(snapLogs', {"success"}) :
              SameWindow(snapLogs'[i], snapLogs'[j]) => i = j
       /\ ( /\ run["sched"].pc = "idle"
            /\ run'["sched"] # run["sched"]
            /\ schedule.enabled
            /\ schedule.last_run_at # NoneInt
            /\ now >= ScheduledAt(schedule, now)
            /\ schedule.last_run_at >= ScheduledAt(schedule, now) )
          => /\ run'["sched"].pc = "idle"
             /\ run'["sched"].result
                    = "Snapshot already generated for current schedule window."
      ]_vars

\* A run of the window failed, the next poll of the window fired again and
\* succeeded, and a later poll of the same window was told not due
C3_RetriedThenNotDue ==
    /\ Len(snapLogs) = 2
    /\ snapLogs[1].trigger_type = "scheduled" /\ snapLogs[1].status = "failed"
    /\ snapLogs[2].trigger_type = "scheduled" /\ snapLogs[2].status = "success"
    /\ SameWindow(snapLogs[1], snapLogs[2])
    /\ schedule.last_run_at >= ScheduledAt(schedule, now)
    /\ run["sched"].pc = "idle"
    /\ run["sched"].result = "Snapshot already generated for current schedule window."

\* The step that ends the run of thread t
RunEnds(t) == run[t].pc # "idle" /\ run'[t].pc = "idle"

Requested(t) ==
    channels \cup (IF run[t].method = "email" /\ run[t].email_to # ""
                   THEN {"email"} ELSE {})

\* C8: in every run whose bundle was built, each enabled delivery channel
\* has been attempted by the end of the run, whatever the outcome of the
\* others.
C8_EveryChannelAttempted ==
    \A t \in SnapThreads :
        (run[t].pc = "idle" /\ run[t].built) => Requested(t) \subseteq run[t].attempted

\* C9: the row of a run is failed only when the build or the primary
\* delivery failed, and the success row of a run carries the text of every
\* secondary channel error of that run.
C9_SecondaryFailureIsWarning ==
    [][\A t \in SnapThreads :
          (RunEnds(t) /\ Len(snapLogs') = Len(snapLogs) + 1) =>
              LET row == snapLogs'[Len(snapLogs')]
              IN  /\ row.status = "failed" =>
                         row.message \in {<<BuildError>>, <<SmtpError>>}
                  /\ row.status = "success" =>
                         \A i \in DOMAIN run[t].errors :
                             \E k \in DOMAIN row.message :
                                 row.message[k] = run[t].errors[i]
      ]_vars

\* C10: a run whose build failed ends with a failed row that carries the
\* exception message, and delivers nothing.
C10_BuildFailureLogged ==
    [][\A t \in SnapThreads :
          (RunEnds(t) /\ ~run[t].built) =>
              /\ Len(snapLogs') = Len(snapLogs) + 1
              /\ snapLogs'[Len(snapLogs')].status = "failed"
              /\ snapLogs'[Len(snapLogs')].message = <<BuildError>>
              /\ UNCHANGED <<outbox, localFiles, driveFiles, sheetLog, localLog>>
      ]_vars

\* ---------------------------------------------------------- schedule claims

\* A poll of the idle scheduler thread that starts a run, and one that
\* replies without starting one
PollFires == run["sched"].pc = "idle" /\ run'["sched"].pc = "build"
PollDeclines ==
    /\ run["sched"].pc = "idle"
    /\ run'["sched"].pc = "idle"
    /\ run'["sched"] # run["sched"]

\* Today at hour_utc:minute_utc
TodayAt(sch, t) == DayOf(t) * MinutesPerDay + sch.hour_utc * 60 + sch.minute_utc
WindowStart(sch, t) ==
    IF sch.frequency = "daily" THEN TodayAt(sch, t) ELSE ScheduledAt(sch, t)
IsDue(sch, t) ==
    /\ t >= WindowStart(sch, t)
    /\ sch.last_run_at = NoneInt \/ sch.last_run_at < WindowStart(sch, t)

\* C11: for an enabled schedule with a recipient a poll starts a run if and
\* only if now >= windowStart and last_run_at is null or before windowStart,
\* windowStart of a daily schedule being today at hour_utc:minute_utc; no
\* run starts before the configured time of the current window.
C11_DueIffWindowOpen ==
    [][(schedule.enabled /\ schedule.recipient_email # "") =>
          /\ PollFires => IsDue(schedule, now)
          /\ PollDeclines => ~IsDue(schedule, now)]_vars

\* On the second day the poll at the configured time starts a run, the run
\* of the day before having set last_run_at
C11_FiresNextDay ==
    /\ schedule.frequency = "daily"
    /\ run["sched"].pc = "build"
    /\ run["sched"].at = MinutesPerDay + TodayAt(schedule, 0)
    /\ schedule.last_run_at = TodayAt(schedule, 0)

\* C12: a window that passed without a run is never made up for.  Before
\* today's configured time a poll of a daily schedule starts nothing,
\* whether or not the window of the day before had its run; and the run a
\* poll starts is stamped with the time of that poll, which lies at or
\* after the start of every window so far, so one run is all that the
\* windows passed so far can produce.
C12_NoCatchUp ==
    [][(schedule.enabled /\ schedule.recipient_email # ""
            /\ schedule.frequency = "daily") =>
          /\ (run["sched"].pc = "idle" /\ run'["sched"] # run["sched"]
                  /\ now < TodayAt(schedule, now))
             => /\ run'["sched"].pc = "idle"
                /\ run'["sched"].result = "Scheduled time not reached yet."
          /\ PollFires =>
                /\ run'["sched"].at = now
                /\ \A d \in 0..DayOf(now) :
                      run'["sched"].at >= TodayAt(schedule, d * MinutesPerDay)
      ]_vars

\* The window of day 0 passed without a run, and the poll before the
\* configured time of day 1 was told that the time is not reached
C12_SkippedWindowStaysSkipped ==
    /\ schedule.enabled /\ schedule.frequency = "daily"
    /\ schedule.last_run_at = NoneInt
    /\ snapLogs = <<>>
    /\ now >= MinutesPerDay
    /\ now < TodayAt(schedule, now)
    /\ run["sched"].pc = "idle"
    /\ run["sched"].result = "Scheduled time not reached yet."

\* C13: last_run_at changes only in the step in which a scheduled run ends
\* with success (it replies 'Scheduled snapshot sent.' and its success row
\* is appended), and the value it gets is the start time of that run; every
\* other step leaves it as it was.
C13_LastRunOnlyOnSuccess ==
    [][schedule'.last_run_at # schedule.last_run_at =>
          /\ run["sched"].pc = "finish"
          /\ schedule'.last_run_at = run["sched"].at
          /\ run'["sched"].pc = "idle"
          /\ run'["sched"].result = "Scheduled snapshot sent."
          /\ Len(snapLogs') = Len(snapLogs) + 1
          /\ snapLogs'[Len(snapLogs')].status = "success"]_vars

\* The flashes of a schedule form that was turned away
ScheduleRejections ==
    { "Invalid snapshot schedule frequency.",
      "Hour and minute are required for snapshot schedule.",
      "Snapshot schedule time is invalid.",
      "Snapshot schedule weekday is invalid.",
      "Recipient email is required when snapshot schedule is enabled." }

\* A schedule whose frequency is daily or weekly, whose hour and minute are
\* in range, whose weekday is in range when it is weekly, and which has a
\* recipient when it is enabled
WellFormed(sch) ==
    /\ sch.frequency \in {"daily", "weekly"}
    /\ sch.hour_utc \in 0..23
    /\ sch.minute_utc \in 0..59
    /\ sch.frequency = "weekly" => sch.weekday_utc \in 0..6
    /\ sch.enabled => sch.recipient_email # ""

\* The forms the handler is to turn away
BadForm(f) ==
    \/ f.frequency \notin {"daily", "weekly"}
    \/ f.hour_utc \notin 0..23
    \/ f.minute_utc \notin 0..59
    \/ f.frequency = "weekly" /\ f.weekday_utc \notin 0..6
    \/ f.enabled /\ f.recipient_email = ""

\* C14: a form with a frequency other than daily/weekly, a missing or
\* out-of-range hour or minute, a weekly frequency with a missing or
\* out-of-range weekday, or enabled without a recipient is turned away; a
\* form that is turned away leaves the stored schedule exactly as it was;
\* and whatever forms are posted the stored schedule stays well formed: an
\* enabled schedule has a recipient and in-range time fields.
C14_RejectedFormChangesNothing ==
    [][/\ \A f \in ScheduleForms : BadForm(f) <=> ScheduleFormError(f) # ""
       /\ \A p \in WebThreads :
             (req'[p] # req[p] /\ req'[p].result \in ScheduleRejections)
                 => schedule' = schedule
       /\ WellFormed(schedule')]_vars

\* An enabled weekly schedule that has run is stored, and a form that
\* enables without a recipient has just been turned away
C14_RejectedWhileEnabled ==
    /\ schedule.enabled /\ schedule.frequency = "weekly"
    /\ schedule.last_run_at # NoneInt
    /\ req["w1"].result
           = "Recipient email is required when snapshot schedule is enabled."

\* ------------------------------------------------------- ledger claims (2)

\* C15: whatever switching off and on lies between two appends, the entry
\* appended next carries as prev_hash the entry_hash of the last entry
\* stored, and while the ledger is off the events of the handlers leave no
\* entry; so the chain verifies link by link across the gap.
C15_ChainsAcrossGap ==
    [][/\ ledger' # ledger =>
             /\ IsLedgerEnabled(setting)
             /\ Len(ledger') = Len(ledger) + 1
             /\ ledger # <<>> =>
                    ledger'[Len(ledger')].prev_hash = ledger[Len(ledger)].entry_hash
       /\ \A i \in DOMAIN ledger' :
             i > 1 => ledger'[i].prev_hash = ledger'[i - 1].entry_hash]_vars

\* Two deletions were recorded, and between them an asset was checked in
\* that left no entry: the ledger was off at the time
C15_EntryAfterGap ==
    /\ Len(ledger) = 2
    /\ ledger[1].event_type = "user_deleted"
    /\ ledger[2].event_type = "user_deleted"
    /\ ledger[2].prev_hash = ledger[1].entry_hash
    /\ ledger[1].created_at < checkouts[1].checked_in_date
    /\ checkouts[1].checked_in_date < ledger[2].created_at

\* C16: for a stored entry, changing any single one of its stored columns
\* to a different value and recomputing the digest gives a value other
\* than the stored entry_hash.
C16_SingleFieldChangeShows ==
    \A p \in WebThreads :
        req[p].handler \in HashedFields => req[p].result # ledger[1].entry_hash

\* C17: when the appends to a mirror-log channel come one after another,
\* the channel's first data row has an empty prev_hash, every later row's
\* prev_hash is the row_hash of the row before it in the same channel, and
\* each row_hash is the SHA-256 of prev_hash and the ten fields joined by
\* '|'; this holds whatever the ledger and the other channel hold.
ChainOf(rows) ==
    \A i \in 1..Len(rows) :
        /\ rows[i].prev_hash = (IF i = 1 THEN "" ELSE rows[i - 1].row_hash)
        /\ Len(rows[i].fields) = 10
        /\ rows[i].row_hash =
               Sha256(Join(<<rows[i].prev_hash>> \o rows[i].fields, "|"))
C17_MirrorChainPerChannel == ChainOf(sheetLog) /\ ChainOf(localLog)
\* Two different rows in the local log and one in the sheet, beside a
\* non-empty ledger that was switched off
C17_SecondRowChained ==
    /\ Len(localLog) = 2
    /\ Len(sheetLog) = 1
    /\ localLog[1].fields # localLog[2].fields
    /\ localLog[2].prev_hash # sheetLog[1].row_hash
    /\ ledger # <<>>
    /\ ~IsLedgerEnabled(setting)

\* C18: two concurrent snapshot runs that append to the same mirror-log
\* channel never both read the same last row: no channel holds two data
\* rows with the same prev_hash.
NoSharedPrevHash(rows) ==
    \A i, j \in 1..Len(rows) : i # j => rows[i].prev_hash # rows[j].prev_hash
C18_NoSharedLastRow == NoSharedPrevHash(sheetLog) /\ NoSharedPrevHash(localLog)

\* C19: in every bundle that build_audit_snapshot_bundle returns, the
\* SHA-256 and the length of each shipped file are the ones its manifest
\* entry records, manifest_sha256 is the SHA-256 of the shipped
\* manifest.json (which has no manifest_sha256 field), and the
\* manifest.sha256 member carries the same digest.
BundleAgrees(b) ==
    /\ \A name \in DOMAIN b.manifest.files :
         /\ name \in DOMAIN b.zip
         /\ b.manifest.files[name].sha256 = Sha256(b.zip[name])
         /\ b.manifest.files[name].size_bytes = Len(b.zip[name])
    /\ DOMAIN b.zip = DOMAIN b.manifest.files \cup {"manifest.json", "manifest.sha256"}
    /\ b.manifest_sha = Sha256(b.zip["manifest.json"])
    /\ b.manifest.manifest_sha256 = b.manifest_sha
    /\ b.zip["manifest.json"] =
         ManifestJson([snapshot_generated_at_utc |-> b.manifest.snapshot_generated_at_utc,
                       files |-> b.manifest.files])
    /\ b.zip["manifest.sha256"] = b.manifest_sha \o "  manifest.json\n"
C19_ManifestMatchesFiles ==
    \A t \in SnapThreads : run[t].built => BundleAgrees(run[t].bundle)
\* A bundle built of a dataset with an open and a returned checkout
C19_BundleBuilt ==
    /\ run["manual"].built
    /\ Len(checkouts) = 2
    /\ ActiveIds = {1}
    /\ run["manual"].bundle.manifest.files["current_assignments.csv"].size_bytes
           > Len(CsvLine(<<"checkout_id", "asset_tag", "asset_name",
                           "checked_out_to", "checked_out_by", "checkout_date",
                           "expected_return_date", "asset_status">>))

\* C20: two builds against the same unchanged dataset give byte-identical
\* CSV extracts, also when several rows share the ordering key.
CsvExtracts ==
    {"current_assignments.csv", "assets.csv", "repairs.csv",
     "assignment_events.csv", "users.csv"}
C20_SameExtractsTwice ==
    (run["manual"].built /\ run["sched"].built) =>
        \A name \in CsvExtracts :
            run["manual"].bundle.zip[name] = run["sched"].bundle.zip[name]

\* ------------------------------------------------- repeat breakage claims

\* The incidents of entity e that lie inside the 180 days before t
InWindow(rows, e, t) ==
    {i \in DOMAIN rows :
        /\ (IF e[1] = "asset" THEN rows[i].asset_id ELSE rows[i].user_id) = e[2]
        /\ t - rows[i].incident_date <= 180 * MinutesPerDay}
\* The entities an incidents row is recorded for
EntitiesOf(row) ==
    {<<"asset", row.asset_id>>}
        \cup (IF row.user_id = NoneInt THEN {} ELSE {<<"user", row.user_id>>})
Recorded == Len(incidents') = Len(incidents) + 1

\* C21: right after record_damage_incident the flag of the asset, and of
\* the matched user, is true exactly when at least 3 of its incidents, the
\* new one included, are dated within the trailing 180 days.
C21_FlagIffThreeInWindow ==
    [][Recorded =>
         \A e \in EntitiesOf(incidents'[Len(incidents')]) :
             repeat_breakage_flag'[e]
                 <=> Cardinality(InWindow(incidents', e, now')) >= 3]_vars
\* Asset 1 has four incidents of which the first has aged out and three
\* count, user 2 has two: the asset is flagged, the user is not
C21_ThirdCountsOldDoesNot ==
    /\ Len(incidents) = 4
    /\ \A i \in 1..4 : incidents[i].asset_id = 1
    /\ incidents[4].incident_date = now
    /\ incidents[4].user_id = 2
    /\ now - incidents[1].incident_date > 180 * MinutesPerDay
    /\ Cardinality(InWindow(incidents, <<"asset", 1>>, now)) = 3
    /\ Cardinality(InWindow(incidents, <<"user", 2>>, now)) = 2
    /\ repeat_breakage_flag[<<"asset", 1>>]
    /\ ~repeat_breakage_flag[<<"user", 2>>]

\* C22: the flag of an entity changes only in a step that records an
\* incident for that entity; time passing and incidents of other assets or
\* users leave it as it is.
C22_FlagChangesOnlyOnOwnIncident ==
    [][\A e \in Entities :
         repeat_breakage_flag'[e] # repeat_breakage_flag[e] =>
             Recorded /\ e \in EntitiesOf(incidents'[Len(incidents')])]_vars
\* Asset 1 is still flagged although only two of its incidents remain in
\* the window, and an incident of asset 2 was recorded since
C22_StaleFlagKept ==
    /\ repeat_breakage_flag[<<"asset", 1>>]
    /\ Cardinality(InWindow(incidents, <<"asset", 1>>, now)) < 3
    /\ incidents # <<>>
    /\ incidents[Len(incidents)].asset_id = 2
    /\ incidents[Len(incidents)].incident_date = now

\* C23: for a weekly schedule and any current time, days_behind lies in
\* 0..6 and the window starts days_behind days before today at
\* hour_utc:minute_utc, which is a day of the configured weekday: the last
\* such day up to today.  No run starts before that window start.
C23_WindowOnConfiguredWeekday ==
    schedule.frequency = "weekly" =>
        /\ DaysBehind(schedule, now) \in 0..6
        /\ ScheduledAt(schedule, now)
               = (DayOf(now) - DaysBehind(schedule, now)) * MinutesPerDay
                     + schedule.hour_utc * 60 + schedule.minute_utc
        /\ DayOf(ScheduledAt(schedule, now)) % 7 = schedule.weekday_utc
        /\ DayOf(ScheduledAt(schedule, now)) <= DayOf(now)
        /\ DayOf(now) - DayOf(ScheduledAt(schedule, now)) < 7
        /\ (run["sched"].pc = "build" /\ run["sched"].at = now)
               => now >= ScheduledAt(schedule, now)
\* weekday_utc = 2 and a poll on a Friday: days_behind is 2 and the run
\* that starts belongs to the window of the Wednesday before
C23_FridayAfterWednesday ==
    /\ schedule.frequency = "weekly"
    /\ schedule.weekday_utc = 2
    /\ Weekday(now) = 4
    /\ DaysBehind(schedule, now) = 2
    /\ run["sched"].pc = "build"
    /\ run["sched"].at = now
    /\ DayOf(ScheduledAt(schedule, now)) = DayOf(now) - 2

\* ------------------------------------------------------------ desk claims

\* The step in which the loaner swap of thread p commits
SwapCommits(p) ==
    /\ req[p].pc = "commit"
    /\ req[p].handler = "loaner_swap"
    /\ req'[p].pc = "idle"
    /\ checkouts' # checkouts

\* C24: after a loaner swap of a checked-out broken asset with an available
\* loaner the broken asset is in maintenance, needs repair and has no
\* active checkout; the loaner is checked out and has exactly one active
\* checkout, made out to the person of the broken asset's checkout and with
\* the same expected return date.
C24_SwapMovesTheCheckout ==
    [][\A p \in WebThreads :
         (/\ SwapCommits(p)
          /\ assets[req[p].arg].status = "checked_out"
          /\ CurrentCheckout(checkouts, req[p].arg) # 0
          /\ assets[req[p].loaner].status = "available") =>
           LET broken == req[p].arg
               loaner == req[p].loaner
               c == CurrentCheckout(checkouts, broken)
           IN  /\ assets'[broken] = [status |-> "maintenance",
                                     condition |-> "needs_repair"]
               /\ ActiveCheckouts(checkouts', broken) = {}
               /\ assets'[loaner].status = "checked_out"
               /\ Cardinality(ActiveCheckouts(checkouts', loaner)) = 1
               /\ \A k \in ActiveCheckouts(checkouts', loaner) :
                    /\ c # 0
                    /\ checkouts'[k].checked_out_to = checkouts[c].checked_out_to
                    /\ checkouts'[k].expected_return_date
                           = checkouts[c].expected_return_date]_vars

\* C29: after any interleaving of checkout, check-in and loaner-swap
\* requests no asset has more than one active checkout, and an asset with
\* status available has none.
C29_OneActiveCheckoutPerAsset ==
    \A a \in DOMAIN assets :
        /\ Cardinality(ActiveCheckouts(checkouts, a)) <= 1
        /\ assets[a].status = "available" => ActiveCheckouts(checkouts, a) = {}

\* ------------------------------------------------------ snapshot claims (2)

\* The ledger entries of event type audit_snapshot that name row `id`
SnapshotEntriesOf(rows, id) ==
    {i \in DOMAIN rows : /\ rows[i].event_type = "audit_snapshot"
                         /\ rows[i].entity_id = id}

\* C25: a step that commits an AuditSnapshotLog row while the ledger is
\* enabled commits with it exactly one ledger entry of event type
\* audit_snapshot whose entity_id is the row's id; no audit_snapshot entry
\* is committed without its row, and no row ever has more than one.
C25_RowAndEntryTogether ==
    [][/\ Len(snapLogs') \in {Len(snapLogs), Len(snapLogs) + 1}
       /\ (Len(snapLogs') = Len(snapLogs) + 1 /\ IsLedgerEnabled(setting)) =>
             /\ Len(ledger') = Len(ledger) + 1
             /\ SubSeq(ledger', 1, Len(ledger)) = ledger
             /\ SnapshotEntriesOf(ledger', Len(snapLogs')) = {Len(ledger')}
             /\ ledger'[Len(ledger')].entity_type = "audit_snapshot_log"
       /\ Len(snapLogs') = Len(snapLogs) =>
             \A i \in DOMAIN ledger' \ DOMAIN ledger :
                 ledger'[i].event_type # "audit_snapshot"
       /\ \A id \in DOMAIN snapLogs' :
             Cardinality(SnapshotEntriesOf(ledger', id)) <= 1
       /\ \A i \in DOMAIN ledger' :
             ledger'[i].event_type = "audit_snapshot" =>
                 ledger'[i].entity_id \in DOMAIN snapLogs'
      ]_vars
\* A failed scheduled row and a successful manual row, each with its entry
C25_FailedAndSuccessLogged ==
    /\ Len(snapLogs) = 2
    /\ Len(ledger) = 2
    /\ \E i, j \in DOMAIN snapLogs :
         /\ snapLogs[i].status = "failed" /\ snapLogs[i].trigger_type = "scheduled"
         /\ snapLogs[j].status = "success" /\ snapLogs[j].trigger_type = "manual"
         /\ SnapshotEntriesOf(ledger, i) # {}
         /\ SnapshotEntriesOf(ledger, j) # {}

\* The scheduled run has sent its email
SchedEmailed(r) == "email" \in r.attempted /\ r.exc # SmtpError

\* C26: a scheduled run whose email has been sent ends with last_run_at
\* set to the run's time and a success row logged for its file, whatever
\* the later steps do; it never ends with a failed row.
C26_EmailedRunEndsInSuccess ==
    [][(/\ run["sched"].pc # "idle"
        /\ SchedEmailed(run["sched"])
        /\ run'["sched"].pc = "idle") =>
          /\ schedule'.last_run_at = run["sched"].at
          /\ Len(snapLogs') = Len(snapLogs) + 1
          /\ snapLogs'[Len(snapLogs')].trigger_type = "scheduled"
          /\ snapLogs'[Len(snapLogs')].status = "success"
          /\ snapLogs'[Len(snapLogs')].zip_filename = Filename(run["sched"].at)
      ]_vars

\* The manual request is one that generate_audit_snapshot rejects
ManualRejected(r) ==
    \/ r.method = "email" /\ r.email_to = ""
    \/ r.method \notin {"download", "email"}

\* C28: no step of a manual snapshot request that is rejected (email
\* delivery without a recipient address, or an unknown delivery method)
\* writes to a storage channel, a mirror log, the run log, the ledger or
\* the outbox.
C28_RejectedRequestWritesNothing ==
    [][(/\ run["manual"].pc # "idle"
        /\ ManualRejected(run["manual"])
        /\ run'["manual"] # run["manual"]) =>
          UNCHANGED <<localFiles, driveFiles, sheetLog, localLog, snapLogs,
                      ledger, outbox>>
      ]_vars

\* A scheduled run has failed
SchedFailed ==
    \/ run["sched"].exc # ""
    \/ \E i \in DOMAIN snapLogs : /\ snapLogs[i].trigger_type = "scheduled"
                                  /\ snapLogs[i].status = "failed"

\* Day d has got its scheduled run
RanOnDay(d) ==
    \E i \in DOMAIN snapLogs : /\ snapLogs[i].trigger_type = "scheduled"
                               /\ snapLogs[i].status = "success"
                               /\ DayOf(snapLogs[i].generated_at) = d

\* C27: with a daily schedule that stays enabled and is polled at a fixed
\* interval, every day eventually gets its scheduled run unless a run
\* fails, whatever the configured hour_utc:minute_utc.  (A run is logged
\* on the day of the poll that starts it, so once the polls of day d are
\* over a run of day d cannot come any more: the behaviour that shows the
\* miss has polled through every day up to MaxPollDay.)
C27_EveryDayGetsItsRun ==
    \A d \in 0..MaxPollDay : <>(SchedFailed \/ RanOnDay(d))

\* ------------------------------------------------------- ledger claims (3)

\* C30: over the same prev_hash, two field tuples that differ in any way
\* get different digests (SHA-256 taken as free of collisions), also when
\* a text field contains '|' or a field is None in one and empty in the
\* other.
C30_DifferentTuplesDifferentDigests ==
    \A p, q \in WebThreads :
        (/\ req[p].handler = "_compute_entry_hash"
         /\ req[q].handler = "_compute_entry_hash"
         /\ req[p].entry # req[q].entry) => req[p].result # req[q].result

====
